---- MODULE Spec2Model ----
(***************************************************************************)
(* Model of the lccfq_lang compilation driver: the instruction data model, *)
(* the ISA builders, challenge, the virtual-to-physical mapping, routing   *)
(* (swaps), the expander, the XYiSW transpiler and the Circuit / Test      *)
(* context managers that run the passes at scope exit.                     *)
(*                                                                         *)
(* Conventions.  Python lists are sequences.  Python None is the value     *)
(* NoneList for optional lists and NoneInt for optional integers.  Angles  *)
(* are integers in units of pi/8, so PI = 8 and the halves the expander    *)
(* takes of even inputs are exact.  The enum members QPUSTATE and TEST     *)
(* are the ones register.py and isa.py use; keyword `params` of the ISA    *)
(* builders is the `parameters` field of Instruction.                      *)
(*                                                                         *)
(* Two specifications.  Spec is the life of one Circuit or Test scope on   *)
(* a constructed device.  LibSpec is the library used without a scope: a   *)
(* device is constructed from a configuration and challenge, map, swaps or *)
(* expand is called on it once, or prepare_state or the QASM emitter is    *)
(* called without a device; for challenge, instructions are objects in a   *)
(* memory of list references, so that copying and sharing are visible.     *)
(***************************************************************************)
EXTENDS Integers, Sequences, FiniteSets, TLC

\* ---------------------------------------------------------------- bounds
MaxInstr == 2
MaxMutations == 1

\* ------------------------------------------------------------- constants
NoneInt == 0 - 999
NoneList == <<NoneInt>>
PI == 8
DefaultShots == 1000

IsNoneList(l) == l = NoneList

Range(s) == {s[i] : i \in DOMAIN s}

\* bool(list): None and [] are falsy
Truthy(l) == (~IsNoneList(l)) /\ l # <<>>

\* `l or []`
OrEmpty(l) == IF Truthy(l) THEN l ELSE <<>>

\* chain.from_iterable putting each later list in front of the earlier ones
RECURSIVE Flatten_prepend(_)
Flatten_prepend(ss) ==
    IF ss = <<>> THEN <<>> ELSE Flatten_prepend(Tail(ss)) \o Head(ss)

RECURSIVE Flatten(_)
Flatten(ss) == IF ss = <<>> THEN <<>> ELSE Head(ss) \o Flatten(Tail(ss))

\* ------------------------------------------------------ instruction model
Instruction(symbol, modifies_state, is_controlled, target_qubits, control_qubits, parameters, shots) ==
    [symbol |-> symbol,
     instruction_type |-> "DELAYED",
     modifies_state |-> modifies_state,
     is_controlled |-> is_controlled,
     is_mapped |-> FALSE,
     target_qubits |-> target_qubits,
     control_qubits |-> control_qubits,
     parameters |-> parameters,
     shots |-> shots]

Gate(symbol, target_qubits, control_qubits, params) ==
    [symbol |-> symbol,
     target_qubits |-> target_qubits,
     control_qubits |-> control_qubits,
     params |-> params]

\* ------------------------------------------------------------ ISA surface
sq_nopar_gates(gate_name, tg, shots) ==
    Instruction(gate_name, FALSE, FALSE, <<tg>>, NoneList, NoneList, shots)

sq_par_gates(gate_name, tg, params, shots) ==
    Instruction(gate_name, FALSE, FALSE, <<tg>>, NoneList, params, shots)

tqc_nopar_gates(gate_name, ct, tg, shots) ==
    Instruction(gate_name, FALSE, TRUE, <<tg>>, <<ct>>, NoneList, shots)

tqc_par_gates(gate_name, ct, tg, params, shots) ==
    Instruction(gate_name, FALSE, TRUE, <<tg>>, <<ct>>, params, shots)

tests(gate_name, tgs, params, shots) ==
    [Instruction(gate_name, FALSE, FALSE, tgs, NoneList, params, shots)
        EXCEPT !.instruction_type = "TEST"]

isa_swap(tg_a, tg_b) ==
    Instruction("swap", FALSE, FALSE, <<tg_b>>, <<tg_a>>, NoneList, NoneInt)

isa_nop(tgs) ==
    Instruction("nop", FALSE, FALSE, tgs, NoneList, NoneList, NoneInt)

isa_measure(tgs) ==
    [Instruction("measure", TRUE, FALSE, tgs, NoneList, NoneList, NoneInt)
        EXCEPT !.instruction_type = "CIRCUIT"]

isa_reset(tgs) ==
    Instruction("reset", TRUE, FALSE, tgs, NoneList, NoneList, NoneInt)

isa_ftol(threshold_fidelity) ==
    [Instruction("ftol", TRUE, FALSE, NoneList, NoneList, <<threshold_fidelity>>, NoneInt)
        EXCEPT !.instruction_type = "QPUSTATE"]

circuit_instr ==
    {"nop", "swap", "x", "y", "z", "h", "s", "sdg", "t", "tdg",
     "p", "rx", "ry", "rz", "phase", "u2", "u3",
     "cx", "cy", "cz", "ch",
     "cp", "crx", "cry", "crz", "cphase", "cu",
     "measure", "reset"}

\* ------------------------------------------------- static well-formedness
\* "ok", or the name of the exception the check raises
is_well_formed_instruction(instruction) ==
    IF instruction.symbol = ""
    THEN "MalformedInstruction"
    ELSE IF (~Truthy(instruction.target_qubits)) /\ instruction.instruction_type # "QPUSTATE"
    THEN "MalformedInstruction"
    ELSE IF (~IsNoneList(instruction.target_qubits))
            /\ \E q \in Range(instruction.target_qubits) : q < 0
    THEN "MalformedInstruction"
    ELSE IF instruction.is_controlled /\ ~Truthy(instruction.control_qubits)
    THEN "MalformedInstruction"
    ELSE IF instruction.is_controlled
            /\ \E q \in Range(instruction.control_qubits) : q < 0
    THEN "MalformedInstruction"
    ELSE IF instruction.is_controlled /\ IsNoneList(instruction.target_qubits)
    THEN "TypeError"
    ELSE IF instruction.is_controlled
            /\ Range(instruction.control_qubits) \cap Range(instruction.target_qubits) # {}
    THEN "MalformedInstruction"
    ELSE IF instruction.shots # NoneInt /\ instruction.shots <= 0
    THEN "MalformedInstruction"
    ELSE "ok"

\* ------------------------------------------------------------- challenge
\* challenge with the TEST arm testing the shots before the kind
challenge_shots_first(instruction, context) ==
    LET wf == is_well_formed_instruction(instruction)
        instr == instruction
    IN  IF wf # "ok"
        THEN [err |-> wf, instr |-> instruction]
        ELSE IF context = "CIRCUIT"
        THEN IF instruction.instruction_type \in {"QPUSTATE", "TEST"}
             THEN [err |-> "NotAllowedInContext", instr |-> instruction]
             ELSE [err |-> "ok",
                   instr |-> [instr EXCEPT !.instruction_type = "CIRCUIT", !.shots = NoneInt]]
        ELSE IF context = "TEST"
        THEN IF instruction.shots = NoneInt
             THEN [err |-> "MalformedInstruction", instr |-> instruction]
             ELSE IF instruction.instruction_type = "QPUSTATE"
             THEN [err |-> "NotAllowedInContext", instr |-> instruction]
             ELSE [err |-> "ok", instr |-> [instr EXCEPT !.instruction_type = "TEST"]]
        ELSE [err |-> "ok", instr |-> [instr EXCEPT !.instruction_type = "QPUSTATE"]]

\* result: err = "ok" and instr = the returned copy, or err = exception name
challenge(instruction, context) ==
    LET wf == is_well_formed_instruction(instruction)
        instr == instruction
    IN  IF wf # "ok"
        THEN [err |-> wf, instr |-> instruction]
        ELSE IF context = "CIRCUIT"
        THEN IF instruction.instruction_type \in {"QPUSTATE", "TEST"}
             THEN [err |-> "NotAllowedInContext", instr |-> instruction]
             ELSE [err |-> "ok",
                   instr |-> [instr EXCEPT !.instruction_type = "CIRCUIT", !.shots = NoneInt]]
        ELSE IF context = "TEST"
        THEN IF instruction.instruction_type = "QPUSTATE"
             THEN [err |-> "NotAllowedInContext", instr |-> instruction]
             ELSE IF instruction.shots = NoneInt
             THEN [err |-> "MalformedInstruction", instr |-> instruction]
             ELSE [err |-> "ok", instr |-> [instr EXCEPT !.instruction_type = "TEST"]]
        ELSE [err |-> "ok", instr |-> [instr EXCEPT !.instruction_type = "QPUSTATE"]]

\* -------------------------------------------------------------- topology
\* a networkx Graph: nodes in insertion order, edges as sets of endpoints
AddNode(nodes, u) == IF u \in Range(nodes) THEN nodes ELSE Append(nodes, u)

RECURSIVE AddEdges(_, _)
AddEdges(g, conns) ==
    IF conns = <<>>
    THEN g
    ELSE LET c == Head(conns)
         IN  AddEdges([nodes |-> AddNode(AddNode(g.nodes, c[1]), c[2]),
                       edges |-> g.edges \cup {{c[1], c[2]}}],
                      Tail(conns))

SeqMin(s) == CHOOSE m \in Range(s) : \A x \in Range(s) : m <= x

remove_exclusions(config) ==
    IF config.topology = "linear"
    THEN IF config.exclusions = <<>>
         THEN config.qubits
         ELSE LET min_exclusion == SeqMin(config.exclusions)
                  below(q) == q < min_exclusion
              IN  SelectSeq(config.qubits, below)
    ELSE LET notExcluded(q) == q \notin Range(config.exclusions)
         IN  SelectSeq(config.qubits, notExcluded)

filter_connections(config) ==
    IF config.exclusions = <<>>
    THEN config.couplings
    ELSE LET min_excluded == SeqMin(config.exclusions)
             keep(c) == min_excluded \notin Range(c)
         IN  SelectSeq(config.couplings, keep)

has_edge(g, u, v) == {u, v} \in g.edges

Degree(g, n) ==
    Cardinality({e \in g.edges : n \in e /\ Cardinality(e) = 2})
        + (IF {n} \in g.edges THEN 2 ELSE 0)

RECURSIVE Reach(_, _)
Reach(g, seen) ==
    LET more == {n \in Range(g.nodes) : \E m \in seen : has_edge(g, m, n)}
    IN  IF more \subseteq seen THEN seen ELSE Reach(g, seen \cup more)

is_connected(g) == Reach(g, {g.nodes[1]}) = Range(g.nodes)

test_linear(g) ==
    IF Len(g.nodes) = 0
    THEN FALSE
    ELSE IF ~is_connected(g)
    THEN FALSE
    ELSE IF Cardinality(g.edges) # Len(g.nodes) - 1
    THEN FALSE
    ELSE Cardinality({i \in DOMAIN g.nodes : Degree(g, g.nodes[i]) = 1}) = 2
         /\ Cardinality({i \in DOMAIN g.nodes : Degree(g, g.nodes[i]) = 2}) = Len(g.nodes) - 2

\* result: err = "ok" and the topology, or err = exception name
QPUTopology(config) ==
    LET internal == AddEdges([nodes |-> <<>>, edges |-> {}], filter_connections(config))
        topo == [internal |-> internal,
                 real_qubits |-> remove_exclusions(config),
                 real_connections |-> filter_connections(config)]
    IN  IF config.topology # "linear"
        THEN [err |-> "BadTopologyType", topo |-> topo]
        ELSE IF ~test_linear(internal)
        THEN [err |-> "BadTopologyType", topo |-> topo]
        ELSE [err |-> "ok", topo |-> topo]

qubits(topology) == topology.internal.nodes

\* --------------------------------------------------------------- mapping
Min2(a, b) == IF a <= b THEN a ELSE b

\* zip(virtual_qubits, topology.qubits()) as a dict
ZipMap(vs, ps) ==
    [v \in {vs[i] : i \in 1..Min2(Len(vs), Len(ps))} |->
        ps[CHOOSE i \in 1..Min2(Len(vs), Len(ps)) :
              vs[i] = v /\ \A j \in 1..Min2(Len(vs), Len(ps)) : vs[j] = v => j <= i]]

\* QPUMapping.__init__ refusing also a register as large as the device
QPUMapping_at_least(virtual_qubits, topology) ==
    IF Len(virtual_qubits) >= Len(qubits(topology))
    THEN [err |-> "NotEnoughQubits", mapping |-> <<>>]
    ELSE [err |-> "ok", mapping |-> ZipMap(virtual_qubits, qubits(topology))]

QPUMapping(virtual_qubits, topology) ==
    IF Len(virtual_qubits) > Len(qubits(topology))
    THEN [err |-> "NotEnoughQubits", mapping |-> <<>>]
    ELSE [err |-> "ok", mapping |-> ZipMap(virtual_qubits, qubits(topology))]

\* mapping.map: err = "ok" and the mapped instruction, or "KeyError"
mapping_map(mapping, instruction) ==
    LET mapped_targets ==
            IF Truthy(instruction.target_qubits)
            THEN [i \in DOMAIN instruction.target_qubits |->
                     IF instruction.target_qubits[i] \in DOMAIN mapping
                     THEN mapping[instruction.target_qubits[i]] ELSE NoneInt]
            ELSE <<>>
        mapped_controls ==
            IF Truthy(instruction.control_qubits)
            THEN [i \in DOMAIN instruction.control_qubits |->
                     IF instruction.control_qubits[i] \in DOMAIN mapping
                     THEN mapping[instruction.control_qubits[i]] ELSE NoneInt]
            ELSE <<>>
        missing ==
            (Truthy(instruction.target_qubits)
                /\ \E q \in Range(instruction.target_qubits) : q \notin DOMAIN mapping)
            \/ (Truthy(instruction.control_qubits)
                /\ \E q \in Range(instruction.control_qubits) : q \notin DOMAIN mapping)
    IN  IF missing
        THEN [err |-> "KeyError", out |-> instruction]
        ELSE [err |-> "ok",
              out |-> [Instruction(instruction.symbol, instruction.modifies_state,
                                   instruction.is_controlled, mapped_targets,
                                   mapped_controls, instruction.parameters,
                                   instruction.shots)
                          EXCEPT !.is_mapped = TRUE]]

\* range(config.qubit_count)
VirtualQubits(n) == [i \in 1..n |-> i - 1]

\* --------------------------------------------------------------- routing
\* all simple paths from src to dst, found by exhaustive extension
RECURSIVE SimplePaths(_, _, _, _)
SimplePaths(g, src, dst, visited) ==
    IF src = dst
    THEN {<<dst>>}
    ELSE UNION {{<<src>> \o p : p \in SimplePaths(g, n, dst, visited \cup {n})} :
                 n \in {m \in Range(g.nodes) \ visited : has_edge(g, src, m)}}

\* nx.shortest_path: <<>> stands for NetworkXNoPath
shortest_path(g, source, target) ==
    LET ps == SimplePaths(g, source, target, {source})
    IN  IF ps = {}
        THEN <<>>
        ELSE CHOOSE p \in ps : \A r \in ps : Len(p) <= Len(r)

\* topology.swaps returning the opening swaps and the routed instruction only
topology_swaps_no_restore(topology, instruction) ==
    LET targets == OrEmpty(instruction.target_qubits)
        controls == OrEmpty(instruction.control_qubits)
        all_qubits == controls \o targets
        q0 == all_qubits[1]
        q1 == all_qubits[2]
        path == shortest_path(topology.internal, q0, q1)
        pre_swaps == [i \in 1..(Len(path) - 2) |-> isa_swap(path[i], path[i + 1])]
        routed_q0 == path[Len(path) - 1]
        routed_q1 == path[Len(path)]
        routed_instr ==
            Instruction(instruction.symbol, instruction.modifies_state,
                        instruction.is_controlled,
                        <<IF q1 \in Range(targets) THEN routed_q1 ELSE routed_q0>>,
                        <<IF q0 \in Range(controls) THEN routed_q0 ELSE routed_q1>>,
                        instruction.parameters, instruction.shots)
    IN  IF Len(all_qubits) = 1 \/ instruction.symbol = "measure" \/ instruction.symbol = "reset"
        THEN [err |-> "ok", out |-> <<instruction>>]
        ELSE IF Len(all_qubits) # 2
        THEN [err |-> "MalformedInstruction", out |-> <<>>]
        ELSE IF has_edge(topology.internal, q0, q1)
        THEN [err |-> "ok", out |-> <<instruction>>]
        ELSE IF q0 \notin Range(topology.internal.nodes) \/ q1 \notin Range(topology.internal.nodes)
        THEN [err |-> "NodeNotFound", out |-> <<>>]
        ELSE IF path = <<>>
        THEN [err |-> "QubitsNotConnected", out |-> <<>>]
        ELSE IF Len(path) < 2
        THEN [err |-> "IndexError", out |-> <<>>]
        ELSE [err |-> "ok", out |-> pre_swaps \o <<routed_instr>>]

\* topology.swaps with the closing swaps appended in the order of the opening ones
topology_swaps_forward(topology, instruction) ==
    LET targets == OrEmpty(instruction.target_qubits)
        controls == OrEmpty(instruction.control_qubits)
        all_qubits == controls \o targets
        q0 == all_qubits[1]
        q1 == all_qubits[2]
        path == shortest_path(topology.internal, q0, q1)
        pre_swaps == [i \in 1..(Len(path) - 2) |-> isa_swap(path[i], path[i + 1])]
        routed_q0 == path[Len(path) - 1]
        routed_q1 == path[Len(path)]
        routed_instr ==
            Instruction(instruction.symbol, instruction.modifies_state,
                        instruction.is_controlled,
                        <<IF q1 \in Range(targets) THEN routed_q1 ELSE routed_q0>>,
                        <<IF q0 \in Range(controls) THEN routed_q0 ELSE routed_q1>>,
                        instruction.parameters, instruction.shots)
        post_swaps == [i \in 1..(Len(path) - 2) |->
                          isa_swap(path[i], path[i + 1])]
    IN  IF Len(all_qubits) = 1 \/ instruction.symbol = "measure" \/ instruction.symbol = "reset"
        THEN [err |-> "ok", out |-> <<instruction>>]
        ELSE IF Len(all_qubits) # 2
        THEN [err |-> "MalformedInstruction", out |-> <<>>]
        ELSE IF has_edge(topology.internal, q0, q1)
        THEN [err |-> "ok", out |-> <<instruction>>]
        ELSE IF q0 \notin Range(topology.internal.nodes) \/ q1 \notin Range(topology.internal.nodes)
        THEN [err |-> "NodeNotFound", out |-> <<>>]
        ELSE IF path = <<>>
        THEN [err |-> "QubitsNotConnected", out |-> <<>>]
        ELSE IF Len(path) < 2
        THEN [err |-> "IndexError", out |-> <<>>]
        ELSE [err |-> "ok", out |-> pre_swaps \o <<routed_instr>> \o post_swaps]

\* topology.swaps: err = "ok" and the list, or err = exception name
topology_swaps(topology, instruction) ==
    LET targets == OrEmpty(instruction.target_qubits)
        controls == OrEmpty(instruction.control_qubits)
        all_qubits == controls \o targets
        q0 == all_qubits[1]
        q1 == all_qubits[2]
        path == shortest_path(topology.internal, q0, q1)
        pre_swaps == [i \in 1..(Len(path) - 2) |-> isa_swap(path[i], path[i + 1])]
        routed_q0 == path[Len(path) - 1]
        routed_q1 == path[Len(path)]
        routed_instr ==
            Instruction(instruction.symbol, instruction.modifies_state,
                        instruction.is_controlled,
                        <<IF q1 \in Range(targets) THEN routed_q1 ELSE routed_q0>>,
                        <<IF q0 \in Range(controls) THEN routed_q0 ELSE routed_q1>>,
                        instruction.parameters, instruction.shots)
        post_swaps == [i \in 1..(Len(path) - 2) |->
                          isa_swap(path[Len(path) - 1 - i], path[Len(path) - i])]
    IN  IF Len(all_qubits) = 1 \/ instruction.symbol = "measure" \/ instruction.symbol = "reset"
        THEN [err |-> "ok", out |-> <<instruction>>]
        ELSE IF Len(all_qubits) # 2
        THEN [err |-> "MalformedInstruction", out |-> <<>>]
        ELSE IF has_edge(topology.internal, q0, q1)
        THEN [err |-> "ok", out |-> <<instruction>>]
        ELSE IF q0 \notin Range(topology.internal.nodes) \/ q1 \notin Range(topology.internal.nodes)
        THEN [err |-> "NodeNotFound", out |-> <<>>]
        ELSE IF path = <<>>
        THEN [err |-> "QubitsNotConnected", out |-> <<>>]
        ELSE IF Len(path) < 2
        THEN [err |-> "IndexError", out |-> <<>>]
        ELSE [err |-> "ok", out |-> pre_swaps \o <<routed_instr>> \o post_swaps]

\* -------------------------------------------------------------- expander
\* QRegister.expand: err = "ok" and the list, or err = exception name
expand(mapping, instruction) ==
    LET mapped_instruction == mapping_map(mapping, instruction)
        ps == instruction.parameters
        tg == instruction.target_qubits[1]
        rz(params) == sq_par_gates("rz", tg, params, NoneInt)
        ry(params) == sq_par_gates("ry", tg, params, NoneInt)
        cx == tqc_nopar_gates("cx", instruction.control_qubits[1], tg, NoneInt)
        need(n) == IF IsNoneList(ps) THEN "TypeError"
                   ELSE IF Len(ps) < n THEN "IndexError" ELSE "ok"
    IN  IF mapped_instruction.err # "ok"
        THEN [err |-> mapped_instruction.err, out |-> <<>>]
        ELSE IF instruction.symbol = "u2"
        THEN IF need(2) # "ok"
             THEN [err |-> need(2), out |-> <<>>]
             ELSE [err |-> "ok",
                   out |-> <<rz(<<ps[1]>>), ry(<<PI \div 2>>), rz(<<ps[2]>>)>>]
        ELSE IF instruction.symbol = "u3"
        THEN IF need(3) # "ok"
             THEN [err |-> need(3), out |-> <<>>]
             ELSE [err |-> "ok",
                   out |-> <<rz(<<ps[1]>>), ry(<<ps[2]>>), rz(<<ps[3]>>)>>]
        ELSE IF instruction.symbol = "cu"
        THEN IF need(3) # "ok"
             THEN [err |-> need(3), out |-> <<>>]
             ELSE IF ~Truthy(instruction.control_qubits)
             THEN [err |-> "TypeError", out |-> <<>>]
             ELSE [err |-> "ok",
                   out |-> <<rz(<<ps[3]>>),
                             ry(<<ps[2] \div 2>>),
                             cx,
                             ry(<<0 - (ps[2] \div 2)>>),
                             rz(<<0 - (ps[1] + ps[3])>>),
                             cx,
                             rz(<<ps[1]>>)>>]
        ELSE IF instruction.symbol = "measure" /\ Len(instruction.target_qubits) > 1
        THEN [err |-> "ok",
              out |-> [i \in DOMAIN instruction.target_qubits |->
                          isa_measure(<<instruction.target_qubits[i]>>)]]
        ELSE [err |-> "ok", out |-> <<instruction>>]

\* ------------------------------------------------------ XYiSW transpiler
\* entries are <<native symbol, params override or None, route tag>>;
\* angles in units of pi/8
_table ==
    "nop" :> <<<<"nop", <<>>, ".">>>>
    @@
    "x" :> <<<<"rx", <<8>>, ".">>>>
    @@
    "y" :> <<<<"ry", <<8>>, ".">>>>
    @@
    "z" :> <<<<"ry", <<0 - 4>>, ".">>,
          <<"rx", <<8>>, ".">>,
          <<"ry", <<4>>, ".">>>>
    @@
    "h" :> <<<<"ry", <<4>>, ".">>,
          <<"rx", <<8>>, ".">>>>
    @@
    "s" :> <<<<"ry", <<0 - 4>>, ".">>,
          <<"rx", <<4>>, ".">>,
          <<"ry", <<4>>, ".">>>>
    @@
    "sdg" :> <<<<"ry", <<0 - 4>>, ".">>,
          <<"rx", <<0 - 4>>, ".">>,
          <<"ry", <<4>>, ".">>>>
    @@
    "t" :> <<<<"ry", <<0 - 4>>, ".">>,
          <<"rx", <<2>>, ".">>,
          <<"ry", <<4>>, ".">>>>
    @@
    "tdg" :> <<<<"ry", <<0 - 4>>, ".">>,
          <<"rx", <<0 - 2>>, ".">>,
          <<"ry", <<4>>, ".">>>>
    @@
    "p" :> <<<<"ry", <<0 - 4>>, ".">>,
          <<"rx", NoneList, ".">>,
          <<"ry", <<4>>, ".">>>>
    @@
    "rx" :> <<<<"rx", NoneList, ".">>>>
    @@
    "ry" :> <<<<"ry", NoneList, ".">>>>
    @@
    "rz" :> <<<<"ry", <<0 - 4>>, ".">>,
          <<"rx", NoneList, ".">>,
          <<"ry", <<4>>, ".">>>>
    @@
    "phase" :> <<<<"ry", <<0 - 4>>, ".">>,
          <<"rx", NoneList, ".">>,
          <<"ry", <<4>>, ".">>>>
    @@
    "swap" :> <<<<"rx", <<4>>, "c">>,
          <<"ry", <<4>>, "t">>,
          <<"sqiswap", <<>>, "*">>,
          <<"rx", <<0 - 4>>, "c">>,
          <<"ry", <<0 - 4>>, "t">>,
          <<"sqiswap", <<>>, "*">>,
          <<"rx", <<4>>, "c">>,
          <<"ry", <<4>>, "t">>,
          <<"sqiswap", <<>>, "*">>>>
    @@
    "cx" :> <<<<"ry", <<0 - 4>>, "t">>,
          <<"sqiswap", <<>>, "*">>,
          <<"rx", <<0 - 4>>, "c">>,
          <<"sqiswap", <<>>, "*">>,
          <<"ry", <<4>>, "t">>>>
    @@
    "cy" :> <<<<"rx", <<0 - 4>>, "t">>,
          <<"ry", <<0 - 4>>, "t">>,
          <<"sqiswap", <<>>, "*">>,
          <<"rx", <<0 - 4>>, "c">>,
          <<"sqiswap", <<>>, "*">>,
          <<"ry", <<4>>, "t">>,
          <<"rx", <<4>>, "t">>>>
    @@
    "cz" :> <<<<"ry", <<4>>, "t">>,
          <<"rx", <<8>>, "t">>,
          <<"ry", <<0 - 4>>, "t">>,
          <<"sqiswap", <<>>, "*">>,
          <<"rx", <<0 - 4>>, "c">>,
          <<"sqiswap", <<>>, "*">>,
          <<"ry", <<4>>, "t">>,
          <<"ry", <<4>>, "t">>,
          <<"rx", <<8>>, "t">>>>
    @@
    "ch" :> <<<<"ry", <<0 - 4>>, "t">>,
          <<"sqiswap", <<>>, "*">>,
          <<"rx", <<0 - 4>>, "c">>,
          <<"sqiswap", <<>>, "*">>,
          <<"ry", <<4>>, "t">>>>
    @@
    "cp" :> <<<<"ry", <<4>>, "t">>,
          <<"rx", <<4>>, "t">>,
          <<"ry", <<0 - 4>>, "t">>,
          <<"sqiswap", <<>>, "*">>,
          <<"rx", <<0 - 4>>, "c">>,
          <<"sqiswap", <<>>, "*">>,
          <<"ry", <<4>>, "t">>,
          <<"rx", NoneList, "t">>,
          <<"ry", <<0 - 4>>, "t">>,
          <<"sqiswap", <<>>, "*">>,
          <<"rx", <<0 - 4>>, "c">>,
          <<"sqiswap", <<>>, "*">>,
          <<"ry", <<4>>, "t">>,
          <<"rx", <<0 - 4>>, "t">>,
          <<"ry", <<0 - 4>>, "t">>>>
    @@
    "crx" :> <<<<"ry", <<4>>, "t">>,
          <<"ry", <<0 - 4>>, "t">>,
          <<"sqiswap", <<>>, "*">>,
          <<"rx", <<0 - 4>>, "c">>,
          <<"sqiswap", <<>>, "*">>,
          <<"ry", <<4>>, "t">>,
          <<"rx", NoneList, "t">>,
          <<"ry", <<0 - 4>>, "t">>,
          <<"sqiswap", <<>>, "*">>,
          <<"rx", <<0 - 4>>, "c">>,
          <<"sqiswap", <<>>, "*">>,
          <<"ry", <<4>>, "t">>,
          <<"ry", <<0 - 4>>, "t">>>>
    @@
    "cry" :> <<<<"rx", <<8>>, "t">>,
          <<"ry", NoneList, "t">>,
          <<"ry", <<0 - 4>>, "t">>,
          <<"sqiswap", <<>>, "*">>,
          <<"rx", <<0 - 4>>, "c">>,
          <<"sqiswap", <<>>, "*">>,
          <<"ry", <<4>>, "t">>,
          <<"ry", NoneList, "t">>,
          <<"rx", <<8>>, "t">>>>
    @@
    "crz" :> <<<<"ry", <<0 - 4>>, "t">>,
          <<"sqiswap", <<>>, "*">>,
          <<"rx", <<0 - 4>>, "c">>,
          <<"sqiswap", <<>>, "*">>,
          <<"ry", <<4>>, "t">>,
          <<"ry", <<0 - 4>>, "t">>,
          <<"rx", NoneList, "t">>,
          <<"ry", <<4>>, "t">>,
          <<"ry", <<0 - 4>>, "t">>,
          <<"sqiswap", <<>>, "*">>,
          <<"rx", <<0 - 4>>, "c">>,
          <<"sqiswap", <<>>, "*">>,
          <<"ry", <<4>>, "t">>>>
    @@
    "cphase" :> <<<<"ry", <<4>>, "t">>,
          <<"rx", <<4>>, "t">>,
          <<"ry", <<0 - 4>>, "t">>,
          <<"sqiswap", <<>>, "*">>,
          <<"rx", <<0 - 4>>, "c">>,
          <<"sqiswap", <<>>, "*">>,
          <<"ry", <<4>>, "t">>,
          <<"rx", NoneList, "t">>,
          <<"ry", <<0 - 4>>, "t">>,
          <<"sqiswap", <<>>, "*">>,
          <<"rx", <<0 - 4>>, "c">>,
          <<"sqiswap", <<>>, "*">>,
          <<"ry", <<4>>, "t">>,
          <<"rx", <<0 - 4>>, "t">>,
          <<"ry", <<0 - 4>>, "t">>>>

\* the curried gate maker of _synthesize, applied to one table entry
_synthesize(instruction, g) ==
    LET symbol == g[1]
        params == g[2]
        route == g[3]
        ps == IF ~IsNoneList(params) THEN params ELSE instruction.parameters
    IN  IF route \in {".", "t"}
        THEN Gate(symbol, instruction.target_qubits, NoneList, ps)
        ELSE IF route = "c"
        THEN Gate(symbol, instruction.control_qubits, NoneList, ps)
        ELSE IF route = "*"
        THEN Gate(symbol, instruction.target_qubits, instruction.control_qubits, ps)
        ELSE Gate(symbol, instruction.control_qubits, instruction.target_qubits, ps)

\* err = "ok" and the gate list, or "KeyError" when the table has no entry
transpile_gate(instruction) ==
    IF instruction.symbol \notin DOMAIN _table
    THEN [err |-> "KeyError", out |-> <<>>]
    ELSE [err |-> "ok",
          out |-> [i \in DOMAIN _table[instruction.symbol] |->
                      _synthesize(instruction, _table[instruction.symbol][i])]]

\* ---------------------------------------------------------- QPU handle
RecognizedPasses == {"parsed", "mapped", "swapped", "expanded", "transpiled", "executed"}

PassOrder == <<"parsed", "mapped", "swapped", "expanded", "transpiled", "executed">>

\* the argument value None of QPU(last_pass=None)
NoPass == "<None>"

\* QPU.__init__: err = "ok" and the handle, or the exception of a constructor
QPU_init(config, last_pass) ==
    LET t == QPUTopology(config)
        m == QPUMapping(VirtualQubits(config.qubit_count), t.topo)
        lp == IF last_pass \notin RecognizedPasses
              THEN (IF last_pass # NoPass THEN last_pass ELSE "transpiled")
              ELSE last_pass
    IN  IF t.err # "ok"
        THEN [err |-> t.err, config |-> config, last_pass |-> last_pass,
              topology |-> t.topo, mapping |-> <<>>]
        ELSE IF m.err # "ok"
        THEN [err |-> m.err, config |-> config, last_pass |-> last_pass,
              topology |-> t.topo, mapping |-> <<>>]
        ELSE [err |-> "ok", config |-> config, last_pass |-> lp,
              topology |-> t.topo, mapping |-> m.mapping]

\* ---------------------------------------------------- classical register
RECURSIVE Bin(_)
Bin(i) == IF i < 2 THEN <<i>> ELSE Bin(i \div 2) \o <<i % 2>>

\* format(i, "0{w}b"): binary digits, zero-padded on the left to width w
format_b(i, w) ==
    LET d == Bin(i)
    IN  IF Len(d) >= w THEN d ELSE [k \in 1..(w - Len(d)) |-> 0] \o d

\* a dict is the set of its (key, value) pairs
Sentinel(bit_count) == {<<format_b(i, bit_count), 0 - 1>> : i \in 0..(2 ^ bit_count - 1)}

CRegister(size) == [bit_count |-> size, data_is_none |-> TRUE, data |-> {}]

absorb(creg, data) == [creg EXCEPT !.data_is_none = FALSE, !.data = data]

\* ------------------------------------------------------- Circuit.__exit__
FirstErr(rs) ==
    IF \E i \in DOMAIN rs : rs[i].err # "ok"
    THEN rs[CHOOSE i \in DOMAIN rs :
               rs[i].err # "ok" /\ \A j \in DOMAIN rs : rs[j].err # "ok" => i <= j].err
    ELSE "ok"

Outs(rs) == [i \in DOMAIN rs |-> rs[i].out]

MapAll(q, instrs) == [i \in DOMAIN instrs |-> mapping_map(q.mapping, instrs[i])]

SwapsAll(q, instrs) == [i \in DOMAIN instrs |-> topology_swaps(q.topology, instrs[i])]

ExpandAll(q, instrs) == [i \in DOMAIN instrs |-> expand(q.mapping, instrs[i])]

TranspileAll(instrs) == [i \in DOMAIN instrs |-> transpile_gate(instrs[i])]

\* Circuit.__exit__ with the swapped stage handing the mapped list to
\* _handle_pass instead of the swapped one
Circuit_exit_wrong_list(q, instrs) ==
    LET mapped == MapAll(q, instrs)
        swapped == SwapsAll(q, instrs)
        expanded == ExpandAll(q, Flatten(Outs(swapped)))
        transpiled == TranspileAll(Flatten(Outs(expanded)))
        fail(log, e) == [log |-> log, cpass |-> "none", program |-> <<>>, err |-> e]
        stop(log, prog) == [log |-> log, cpass |-> q.last_pass, program |-> prog, err |-> "ok"]
    IN  IF q.last_pass = "parsed"
        THEN stop(<<"parsed">>, instrs)
        ELSE IF FirstErr(mapped) # "ok"
        THEN fail(<<"parsed", "mapped">>, FirstErr(mapped))
        ELSE IF q.last_pass = "mapped"
        THEN stop(<<"parsed", "mapped">>, Outs(mapped))
        ELSE IF FirstErr(swapped) # "ok"
        THEN fail(<<"parsed", "mapped", "swapped">>, FirstErr(swapped))
        ELSE IF q.last_pass = "swapped"
        THEN stop(<<"parsed", "mapped", "swapped">>, Outs(mapped))
        ELSE IF FirstErr(expanded) # "ok"
        THEN fail(<<"parsed", "mapped", "swapped", "expanded">>, FirstErr(expanded))
        ELSE IF q.last_pass = "expanded"
        THEN stop(<<"parsed", "mapped", "swapped", "expanded">>, Flatten(Outs(expanded)))
        ELSE IF FirstErr(transpiled) # "ok"
        THEN fail(<<"parsed", "mapped", "swapped", "expanded", "transpiled">>,
                  FirstErr(transpiled))
        ELSE IF q.last_pass = "transpiled"
        THEN stop(<<"parsed", "mapped", "swapped", "expanded", "transpiled">>,
                  Flatten(Outs(transpiled)))
        ELSE IF q.last_pass = "executed"
        THEN stop(<<"parsed", "mapped", "swapped", "expanded", "transpiled">>,
                  Flatten(Outs(transpiled)))
        ELSE fail(<<"parsed", "mapped", "swapped", "expanded", "transpiled">>,
                  "UnknownCompilerPass")

\* The pass cascade of Circuit.__exit__ over self.instructions.
\* log: the passes started, in order; cpass/program: the arguments of the
\* _handle_pass call ("none" when it is not reached); err: "ok" or the
\* exception that leaves __exit__ before _handle_pass.
Circuit_exit(q, instrs) ==
    LET mapped == MapAll(q, instrs)
        swapped == SwapsAll(q, instrs)
        expanded == ExpandAll(q, Flatten(Outs(swapped)))
        transpiled == TranspileAll(Flatten(Outs(expanded)))
        fail(log, e) == [log |-> log, cpass |-> "none", program |-> <<>>, err |-> e]
        stop(log, prog) == [log |-> log, cpass |-> q.last_pass, program |-> prog, err |-> "ok"]
    IN  IF q.last_pass = "parsed"
        THEN stop(<<"parsed">>, instrs)
        ELSE IF FirstErr(mapped) # "ok"
        THEN fail(<<"parsed", "mapped">>, FirstErr(mapped))
        ELSE IF q.last_pass = "mapped"
        THEN stop(<<"parsed", "mapped">>, Outs(mapped))
        ELSE IF FirstErr(swapped) # "ok"
        THEN fail(<<"parsed", "mapped", "swapped">>, FirstErr(swapped))
        ELSE IF q.last_pass = "swapped"
        THEN stop(<<"parsed", "mapped", "swapped">>, Flatten(Outs(swapped)))
        ELSE IF FirstErr(expanded) # "ok"
        THEN fail(<<"parsed", "mapped", "swapped", "expanded">>, FirstErr(expanded))
        ELSE IF q.last_pass = "expanded"
        THEN stop(<<"parsed", "mapped", "swapped", "expanded">>, Flatten(Outs(expanded)))
        ELSE IF FirstErr(transpiled) # "ok"
        THEN fail(<<"parsed", "mapped", "swapped", "expanded", "transpiled">>,
                  FirstErr(transpiled))
        ELSE IF q.last_pass = "transpiled"
        THEN stop(<<"parsed", "mapped", "swapped", "expanded", "transpiled">>,
                  Flatten(Outs(transpiled)))
        ELSE IF q.last_pass = "executed"
        THEN stop(<<"parsed", "mapped", "swapped", "expanded", "transpiled">>,
                  Flatten(Outs(transpiled)))
        ELSE fail(<<"parsed", "mapped", "swapped", "expanded", "transpiled">>,
                  "UnknownCompilerPass")

\* ------------------------------------------------ objects and references
\* Instruction objects and the list objects their fields refer to, as the
\* interpreter keeps them: an object's list fields hold references into
\* `lists`, and the reference 0 is None.
EmptyMem == [objs |-> <<>>, lists |-> <<>>]

\* a list literal evaluated into a new list object
AllocList(m, l) ==
    IF IsNoneList(l)
    THEN [mem |-> m, ref |-> 0]
    ELSE [mem |-> [m EXCEPT !.lists = Append(@, l)], ref |-> Len(m.lists) + 1]

\* Instruction(...): a new object whose list fields refer to new lists
New(m, v) ==
    LET a == AllocList(m, v.target_qubits)
        b == AllocList(a.mem, v.control_qubits)
        c == AllocList(b.mem, v.parameters)
        o == [v EXCEPT !.target_qubits = a.ref,
                       !.control_qubits = b.ref,
                       !.parameters = c.ref]
    IN  [mem |-> [c.mem EXCEPT !.objs = Append(@, o)], ref |-> Len(m.objs) + 1]

ListAt(m, r) == IF r = 0 THEN NoneList ELSE m.lists[r]

\* the fields of object o, its lists read through their references
Deref(m, o) ==
    [m.objs[o] EXCEPT !.target_qubits = ListAt(m, @),
                      !.control_qubits = ListAt(m, @),
                      !.parameters = ListAt(m, @)]

\* the list objects object o refers to
ListRefs(m, o) ==
    {m.objs[o].target_qubits, m.objs[o].control_qubits, m.objs[o].parameters} \ {0}

\* copy.deepcopy(instruction): a new object with new, equal lists
deepcopy(m, o) == New(m, Deref(m, o))

\* QRegister.challenge with a copy.copy in place of the deep copy: the new
\* object shares the list objects of its argument
challenge_call_shallow(m, o, context) ==
    LET instruction == Deref(m, o)
        r == challenge(instruction, context)
        c == [mem |-> [m EXCEPT !.objs = Append(@, m.objs[o])], ref |-> Len(m.objs) + 1]
    IN  IF is_well_formed_instruction(instruction) # "ok"
        THEN [err |-> r.err, mem |-> m, ret |-> 0]
        ELSE IF r.err # "ok"
        THEN [err |-> r.err, mem |-> c.mem, ret |-> 0]
        ELSE [err |-> "ok",
              mem |-> [c.mem EXCEPT !.objs[c.ref].instruction_type = r.instr.instruction_type,
                                    !.objs[c.ref].shots = r.instr.shots],
              ret |-> c.ref]

\* QRegister.challenge on the object o of memory m: the memory afterwards and
\* the object returned (0 when it raises err)
challenge_call(m, o, context) ==
    LET instruction == Deref(m, o)
        r == challenge(instruction, context)
        c == deepcopy(m, o)
    IN  IF is_well_formed_instruction(instruction) # "ok"
        THEN [err |-> r.err, mem |-> m, ret |-> 0]
        ELSE IF r.err # "ok"
        THEN [err |-> r.err, mem |-> c.mem, ret |-> 0]
        ELSE [err |-> "ok",
              mem |-> [c.mem EXCEPT !.objs[c.ref].instruction_type = r.instr.instruction_type,
                                    !.objs[c.ref].shots = r.instr.shots],
              ret |-> c.ref]

\* no library function has been called directly
NoCall ==
    [op |-> "none", arg |-> 0, context |-> "", err |-> "", out |-> <<>>,
     before |-> EmptyMem, after |-> EmptyMem, obj |-> 0, ret |-> 0]

\* ------------------------------------------------------------ the inputs
\* device descriptions the handle is built from (the [qpu] section)
Configs ==
    {[topology |-> "linear", qubit_count |-> 3, qubits |-> <<0, 1, 2, 3>>,
      couplings |-> <<<<0, 1>>, <<1, 2>>, <<2, 3>>>>, exclusions |-> <<>>],
     [topology |-> "linear", qubit_count |-> 3, qubits |-> <<0, 1, 2, 3>>,
      couplings |-> <<<<1, 2>>, <<2, 3>>, <<0, 1>>>>, exclusions |-> <<>>]}

LastPassArgs == RecognizedPasses \cup {"bogus_pass", NoPass}

BitCounts == {1, 2}

\* the instructions a scope body builds through the ISA
UserInstrs ==
    {sq_nopar_gates("x", 0, 100),
     tqc_nopar_gates("cx", 0, 2, NoneInt),
     tqc_par_gates("cu", 0, 1, <<2, 4, 6>>, NoneInt),
     isa_measure(<<0, 1>>),
     sq_nopar_gates("x", 3, NoneInt),
     isa_ftol(1),
     tests("powrab", <<0>>, NoneList, 100),
     tests("powrab", <<0>>, NoneList, NoneInt)}

\* the value a caller later writes into the shots field of an instruction
MutShots == 5

\* ------------------------------------------------------------- the state
VARIABLES
    qpu,            \* the QPU handle: last_pass, topology, mapping
    ctx,            \* "CIRCUIT" for a Circuit scope, "TEST" for a Test scope
    pc,             \* "created", "open" (inside the with body), "closed"
    heap,           \* the Instruction objects alive, by identity
    held,           \* identities of the objects the caller built and holds
    instructions,   \* self.instructions: object identities, in append order
    creg,           \* the classical register of the Circuit
    shots,          \* Circuit.shots
    accum,          \* the accumulator map of the Test scope
    absorbs,        \* number of CRegister.absorb calls so far
    handled,        \* arguments of the _handle_pass calls so far
    passlog,        \* passes started by __exit__, in order
    exec_circuit_calls,  \* arguments of the exec_circuit calls so far
    exec_single_calls,   \* arguments of the exec_single calls so far
    body,           \* how the body ended: "running", "clean", "exception"
    raised,         \* what leaves the with statement: "none" or an exception
    append_err,     \* outcome of the last >>: "none", "ok" or an exception
    mutations,      \* number of caller writes to appended instructions
    call            \* the last direct call of a library function, with its result

vars == <<qpu, ctx, pc, heap, held, instructions, creg, shots, accum, absorbs, handled,
          passlog, exec_circuit_calls, exec_single_calls, body, raised,
          append_err, mutations, call>>

\* the list self.instructions as the values its objects hold now
View == [i \in DOMAIN instructions |-> heap[instructions[i]]]

Init ==
    /\ \E config \in Configs, last_pass \in LastPassArgs :
          /\ QPU_init(config, last_pass).err = "ok"
          /\ qpu = QPU_init(config, last_pass)
    /\ ctx \in {"CIRCUIT", "TEST"}
    /\ \E size \in BitCounts : creg = CRegister(IF ctx = "CIRCUIT" THEN size ELSE 1)
    /\ shots = DefaultShots
    /\ pc = "created"
    /\ heap = <<>>
    /\ held = {}
    /\ instructions = <<>>
    /\ accum = {}
    /\ absorbs = 0
    /\ handled = <<>>
    /\ passlog = <<>>
    /\ exec_circuit_calls = <<>>
    /\ exec_single_calls = <<>>
    /\ body = "running"
    /\ raised = "none"
    /\ append_err = "none"
    /\ mutations = 0
    /\ call = NoCall

\* __enter__ of either scope
Enter ==
    /\ pc = "created"
    /\ pc' = "open"
    /\ UNCHANGED <<call, qpu, ctx, heap, held, instructions, creg, shots, accum, absorbs, handled,
                   passlog, exec_circuit_calls, exec_single_calls, body, raised,
                   append_err, mutations>>

\* Circuit.__rshift__ / Test.__rshift__ on an instruction that passes challenge.
\* The caller's object is Len(heap) + 1 and the deep copy challenge returns is
\* Len(heap) + 2; self.instructions.append(instr) stores the caller's object.
rshift(instr) ==
    /\ pc = "open"
    /\ Len(instructions) < MaxInstr
    /\ challenge(instr, ctx).err = "ok"
    /\ heap' = heap \o <<instr, challenge(instr, ctx).instr>>
    /\ held' = held \cup {Len(heap) + 1}
    /\ instructions' = Append(instructions, Len(heap) + 1)
    /\ append_err' = "ok"
    /\ UNCHANGED <<call, qpu, ctx, pc, creg, shots, accum, absorbs, handled, passlog,
                   exec_circuit_calls, exec_single_calls, body, raised, mutations>>

\* >> on an instruction that challenge rejects; the body catches the exception
rshift_rejected(instr) ==
    /\ pc = "open"
    /\ challenge(instr, ctx).err # "ok"
    /\ append_err' = challenge(instr, ctx).err
    /\ UNCHANGED <<call, qpu, ctx, pc, heap, held, instructions, creg, shots, accum, absorbs,
                   handled, passlog, exec_circuit_calls, exec_single_calls, body,
                   raised, mutations>>

\* the caller writes the shots field of an instruction it appended earlier
CallerMutates(o) ==
    /\ pc = "open"
    /\ mutations < MaxMutations
    /\ o \in held
    /\ heap[o].shots # MutShots
    /\ heap' = [heap EXCEPT ![o].shots = MutShots]
    /\ mutations' = mutations + 1
    /\ UNCHANGED <<call, qpu, ctx, pc, held, instructions, creg, shots, accum, absorbs, handled,
                   passlog, exec_circuit_calls, exec_single_calls, body, raised,
                   append_err>>

\* Circuit.__exit__ followed by what the with statement does with its result.
\* exc: the body raised; backend_ok: the backend call of exec_circuit returns.
Circuit__exit__(exc, backend_ok) ==
    LET r == Circuit_exit(qpu, View)
        reached == r.err = "ok"
        executes == reached /\ r.cpass = "executed"
        absorbed == reached /\ (r.cpass # "executed" \/ backend_ok)
        result == IF r.cpass = "executed" THEN {} ELSE Sentinel(creg.bit_count)
    IN  /\ pc = "open"
        /\ ctx = "CIRCUIT"
        /\ pc' = "closed"
        /\ body' = IF exc THEN "exception" ELSE "clean"
        /\ passlog' = r.log
        /\ handled' = IF reached
                      THEN Append(handled, [cpass |-> r.cpass, program |-> r.program])
                      ELSE handled
        /\ exec_circuit_calls' = IF executes
                                 THEN Append(exec_circuit_calls,
                                             [circuit |-> r.program, shots |-> shots])
                                 ELSE exec_circuit_calls
        /\ creg' = IF absorbed THEN absorb(creg, result) ELSE creg
        /\ absorbs' = IF absorbed THEN absorbs + 1 ELSE absorbs
        /\ raised' = IF ~reached THEN r.err
                     ELSE IF ~absorbed THEN "BackendError"
                     ELSE "none"
        /\ UNCHANGED <<call, qpu, ctx, heap, held, instructions, shots, accum, exec_single_calls,
                       append_err, mutations>>

CircuitCleanExit == \E backend_ok \in BOOLEAN : Circuit__exit__(FALSE, backend_ok)

CircuitExceptionExit == \E backend_ok \in BOOLEAN : Circuit__exit__(TRUE, backend_ok)

\* Test.__exit__ passing the default shot count to every exec_single call
Test__exit__default_shots(exc) ==
    /\ pc = "open"
    /\ ctx = "TEST"
    /\ pc' = "closed"
    /\ body' = IF exc THEN "exception" ELSE "clean"
    /\ exec_single_calls' = exec_single_calls \o
          [i \in DOMAIN View |-> [instruction |-> View[i], shots |-> DefaultShots]]
    /\ accum' = {e \in accum : e[1] \notin {i - 1 : i \in DOMAIN View}}
                    \cup {<<i - 1, NoneInt>> : i \in DOMAIN View}
    /\ raised' = IF exc THEN "UserError" ELSE "none"
    /\ UNCHANGED <<call, qpu, ctx, heap, held, instructions, creg, shots, absorbs, handled,
                   passlog, exec_circuit_calls, append_err, mutations>>

\* Test.__exit__: one exec_single per stored instruction; returns None, so an
\* exception of the body goes on to the caller
Test__exit__(exc) ==
    /\ pc = "open"
    /\ ctx = "TEST"
    /\ pc' = "closed"
    /\ body' = IF exc THEN "exception" ELSE "clean"
    /\ exec_single_calls' = exec_single_calls \o
          [i \in DOMAIN View |-> [instruction |-> View[i], shots |-> View[i].shots]]
    /\ accum' = {e \in accum : e[1] \notin {i - 1 : i \in DOMAIN View}}
                    \cup {<<i - 1, NoneInt>> : i \in DOMAIN View}
    /\ raised' = IF exc THEN "UserError" ELSE "none"
    /\ UNCHANGED <<call, qpu, ctx, heap, held, instructions, creg, shots, absorbs, handled,
                   passlog, exec_circuit_calls, append_err, mutations>>

TestCleanExit == Test__exit__(FALSE)

TestExceptionExit == Test__exit__(TRUE)

Next ==
    \/ Enter
    \/ \E instr \in UserInstrs : rshift(instr)
    \/ \E instr \in UserInstrs : rshift_rejected(instr)
    \/ \E o \in held : CallerMutates(o)
    \/ CircuitCleanExit
    \/ CircuitExceptionExit
    \/ TestCleanExit
    \/ TestExceptionExit

Spec == Init /\ [][Next]_vars

\* ================================================ direct library calls
\* The library used without a scope: a device is constructed from a
\* configuration, and challenge, map, swaps and expand are called on it
\* directly; prepare_state and the QASM emitter are called on their own.

\* ---------------------------------------------------------------- bounds
\* number of qubits of the configured chain
ChainLen == 4

\* number of instructions of a circuit handed to the QASM emitter
MaxProgram == 2

\* number of target qubits of a state preparation
MaxTargets == 2

\* ------------------------------------------------------------ the inputs
\* couplings of the chain 0 - 1 - ... - (n-1), in order
Chain(n) == [i \in 1..(n - 1) |-> <<i - 1, i>>]

\* the same couplings listed from the second one on, the first one last
Rotated(cs) == IF cs = <<>> THEN cs ELSE Tail(cs) \o <<Head(cs)>>

ExclusionLists ==
    {<<>>} \cup {<<e>> : e \in 0..(ChainLen - 1)} \cup {<<ChainLen - 1, 1>>}

LibConfigs ==
    {[topology |-> "linear", qubit_count |-> n, qubits |-> VirtualQubits(ChainLen),
      couplings |-> cs, exclusions |-> ex] :
        n \in {2, 3}, cs \in {Chain(ChainLen), Rotated(Chain(ChainLen))},
        ex \in ExclusionLists}
    \cup
    {[topology |-> "nonsense", qubit_count |-> 2, qubits |-> VirtualQubits(ChainLen),
      couplings |-> Chain(ChainLen), exclusions |-> <<>>]}

\* operand indices: the chain's qubits and one index beyond them
Indices == 0..ChainLen

\* instructions handed to map and swaps
RouteInstrs ==
    {tqc_nopar_gates("cx", a, b, NoneInt) : a \in Indices, b \in Indices}
    \cup {tqc_par_gates("crz", 0, ChainLen - 1, <<4>>, NoneInt),
          isa_swap(0, 2),
          sq_nopar_gates("x", 1, NoneInt),
          isa_measure(<<0, 2>>),
          isa_nop(<<0, 2>>),
          isa_nop(<<0, 1, 2>>)}

Kinds == {"DELAYED", "CIRCUIT", "TEST", "QPUSTATE"}

Contexts == {"CIRCUIT", "TEST", "NONE"}

\* instructions as the builders make them ...
BuiltInstrs ==
    {sq_nopar_gates("x", 0, NoneInt),
     sq_nopar_gates("x", 0, 0),
     sq_nopar_gates("x", 0 - 1, NoneInt),
     tqc_nopar_gates("cx", 0, 1, NoneInt),
     tqc_nopar_gates("cx", 1, 1, NoneInt),
     tqc_nopar_gates("cx", 0 - 1, 1, 100),
     isa_swap(0, 1),
     isa_swap(1, 1),
     isa_swap(0 - 1, 1),
     isa_measure(<<0, 1>>),
     isa_nop(NoneList),
     isa_ftol(1),
     tests("powrab", <<0>>, NoneList, NoneInt),
     tests("powrab", <<0>>, NoneList, 100)}

\* ... and with the kind and the shots a caller may write afterwards
ChallengeInstrs ==
    BuiltInstrs \cup
    {[b EXCEPT !.instruction_type = k, !.shots = s] :
        b \in {sq_par_gates("rz", 1, <<4>>, NoneInt), isa_swap(0, 1)},
        k \in Kinds, s \in {NoneInt, 100}}

\* ---------------------------------------------------------- QASM emitter
\* A program text is the sequence of its lines.  A line is the mnemonic that
\* opens it, the rendered parameters, the qubit arguments q[k] as their
\* indices k, and the classical bit c[i] as its index i (NoneInt: none).
Line(mnemonic, params, qargs, cbit) ==
    [mnemonic |-> mnemonic, params |-> params, qargs |-> qargs, cbit |-> cbit]

\* f"{p:.10g}": the value under the format it is printed with
format_10g(p) == <<"%.10g", p>>

\* QASMSynthesizer.gate_map, as its <<key, value>> pairs
gate_map ==
    {<<"x", "x">>, <<"y", "y">>, <<"z", "z">>, <<"h", "h">>,
     <<"s", "s">>, <<"sdg", "sdg">>, <<"t", "t">>, <<"tdg", "tdg">>,
     <<"rx", "rx">>, <<"ry", "ry">>, <<"rz", "rz">>, <<"p", "p">>,
     <<"phase", "phase">>, <<"u2", "u2">>, <<"u3", "u3">>,
     <<"cx", "cx">>, <<"cy", "cy">>, <<"cz", "cz">>, <<"ch", "ch">>,
     <<"cp", "cp">>, <<"crx", "crx">>, <<"cry", "cry">>,
     <<"crz", "crz">>, <<"cphase", "cphase">>, <<"cu", "cu">>,
     <<"swap", "swap">>,
     <<"measure", "measure">>,
     <<"reset", "reset">>}

\* gate_map.get(symbol); "None" when the key is missing
gate_map_get(symbol) ==
    IF \E kv \in gate_map : kv[1] = symbol
    THEN (CHOOSE kv \in gate_map : kv[1] = symbol)[2]
    ELSE "None"

\* QASMSynthesizer.get_qasm_header
get_qasm_header(n_qubits, n_bits) ==
    <<Line("OPENQASM 3.0", <<>>, <<>>, NoneInt),
      Line("qubit", <<<<"%d", n_qubits>>>>, <<>>, NoneInt),
      Line("bit", <<<<"%d", n_bits>>>>, <<>>, NoneInt)>>

\* QASMSynthesizer.synth_instruction: err = "ok" and the lines of the text, or
\* err = exception name.  "\n".join of no statement is one empty line.
synth_instruction(instr) ==
    LET qasm_op == gate_map_get(instr.symbol)
        tgs == OrEmpty(instr.target_qubits)
        cts == OrEmpty(instr.control_qubits)
        qubit_args == cts \o tgs
        params == IF Truthy(instr.parameters)
                  THEN [i \in DOMAIN instr.parameters |-> format_10g(instr.parameters[i])]
                  ELSE <<>>
    IN  IF qasm_op = "None"
        THEN [err |-> "UnknownInstruction", out |-> <<>>]
        ELSE IF instr.symbol = "measure"
        THEN IF tgs = <<>>
             THEN [err |-> "MalformedInstruction", out |-> <<>>]
             ELSE [err |-> "ok",
                   out |-> [i \in DOMAIN tgs |-> Line("measure", <<>>, <<tgs[i]>>, i - 1)]]
        ELSE IF instr.symbol = "reset"
        THEN [err |-> "ok",
              out |-> IF tgs = <<>> THEN <<Line("", <<>>, <<>>, NoneInt)>>
                      ELSE [i \in DOMAIN tgs |-> Line("reset", <<>>, <<tgs[i]>>, NoneInt)]]
        ELSE [err |-> "ok", out |-> <<Line(qasm_op, params, qubit_args, NoneInt)>>]

\* QASMSynthesizer.synth_circuit on a circuit whose registers have qubit_count
\* qubits and bit_count bits and that holds the list instrs
synth_circuit(qubit_count, bit_count, instrs) ==
    LET each == [i \in DOMAIN instrs |-> synth_instruction(instrs[i])]
    IN  IF FirstErr(each) # "ok"
        THEN [err |-> FirstErr(each), out |-> <<>>]
        ELSE [err |-> "ok",
              out |-> get_qasm_header(qubit_count, bit_count) \o Flatten(Outs(each))]

\* instructions handed to synth_instruction: one per circuit symbol as its
\* builder makes it, and what a caller can write by hand
SynthInstrs ==
    {sq_nopar_gates(g, 0, NoneInt) : g \in {"x", "y", "z", "h", "s", "sdg", "t", "tdg"}}
    \cup {sq_par_gates(g, 1, <<4>>, NoneInt) : g \in {"p", "rx", "ry", "rz", "phase"}}
    \cup {tqc_nopar_gates(g, 0, 1, NoneInt) : g \in {"cx", "cy", "cz", "ch"}}
    \cup {tqc_par_gates(g, 0, 1, <<4>>, NoneInt) : g \in {"cp", "crx", "cry", "crz", "cphase"}}
    \cup {sq_par_gates("u2", 0, <<2, 4>>, NoneInt),
          sq_par_gates("u3", 0, <<2, 4, 6>>, NoneInt),
          tqc_par_gates("cu", 0, 1, <<2, 4, 6>>, NoneInt),
          isa_swap(0, 1),
          isa_nop(<<0>>),
          isa_nop(NoneList),
          isa_measure(<<0>>),
          isa_measure(<<0, 1>>),
          isa_measure(<<>>),
          isa_reset(<<0, 2>>),
          isa_ftol(1),
          tests("powrab", <<0>>, NoneList, NoneInt),
          Instruction("foobar", FALSE, FALSE, <<0>>, NoneList, NoneList, NoneInt)}

\* the circuits handed to synth_circuit: the lists a Circuit accepts, of at
\* most MaxProgram instructions
ProgramInstrs ==
    {v \in {sq_nopar_gates("x", 0, NoneInt),
            tqc_nopar_gates("cx", 0, 1, NoneInt),
            isa_measure(<<0>>),
            isa_measure(<<1>>),
            isa_measure(<<0, 1>>),
            isa_measure(<<0, 1, 2>>)} : challenge(v, "CIRCUIT").err = "ok"}

Programs == UNION {[1..k -> ProgramInstrs] : k \in 0..MaxProgram}

\* ----------------------------------------------------- state preparation
\* Rotation angles are integers; an angle is negligible (|a| < 1e-15) when it
\* is 0.  The angles handed to the multiplexors are multiples of AngleUnit, so
\* that every halving of the recursion is exact.
AngleUnit == 2 ^ MaxTargets

Reversed(l) == [i \in DOMAIN l |-> l[Len(l) + 1 - i]]

\* _ucr with the control and the target of each cx exchanged
RECURSIVE _ucr_cx_reversed(_, _, _, _)
_ucr_cx_reversed(gate_type, target, controls, angles) ==
    IF \A j \in DOMAIN angles : angles[j] = 0
    THEN <<>>
    ELSE IF controls = <<>>
    THEN <<sq_par_gates(gate_type, target, <<angles[1]>>, NoneInt)>>
    ELSE LET half == Len(angles) \div 2
             alpha == [j \in 1..half |-> (angles[j] + angles[j + half]) \div 2]
             beta == [j \in 1..half |-> (angles[j] - angles[j + half]) \div 2]
             rest == SubSeq(controls, 1, Len(controls) - 1)
             cx == tqc_nopar_gates("cx", target, controls[Len(controls)], NoneInt)
         IN  _ucr_cx_reversed(gate_type, target, rest, alpha) \o <<cx>>
                 \o _ucr_cx_reversed(gate_type, target, rest, beta) \o <<cx>>

\* preparation._ucr
RECURSIVE _ucr(_, _, _, _)
_ucr(gate_type, target, controls, angles) ==
    IF \A j \in DOMAIN angles : angles[j] = 0
    THEN <<>>
    ELSE IF controls = <<>>
    THEN <<sq_par_gates(gate_type, target, <<angles[1]>>, NoneInt)>>
    ELSE LET half == Len(angles) \div 2
             alpha == [j \in 1..half |-> (angles[j] + angles[j + half]) \div 2]
             beta == [j \in 1..half |-> (angles[j] - angles[j + half]) \div 2]
             rest == SubSeq(controls, 1, Len(controls) - 1)
             cx == tqc_nopar_gates("cx", controls[Len(controls)], target, NoneInt)
         IN  _ucr(gate_type, target, rest, alpha) \o <<cx>>
                 \o _ucr(gate_type, target, rest, beta) \o <<cx>>

\* preparation.prepare_state.  state_len is the length of the amplitude
\* vector and norm_is_zero tells whether its norm is below 1e-15.  The angles
\* phase 1 computes from the amplitudes (arctan2 and angle of floating-point
\* numbers) are given as levels: levels[k + 1] holds the 2^k ry angles and the
\* 2^k rz angles of level k.
prepare_state(target, state_len, norm_is_zero, endianness, levels) ==
    LET n == Len(target)
        dim == 2 ^ n
        tgt == IF endianness = "big" THEN Reversed(target) ELSE target
        level(k) ==
            LET controls == SubSeq(tgt, 1, k)
            IN  _ucr("ry", tgt[k + 1], controls, levels[k + 1].ry_angles)
                \o (IF \E j \in DOMAIN levels[k + 1].rz_angles :
                            levels[k + 1].rz_angles[j] # 0
                    THEN _ucr("rz", tgt[k + 1], controls, levels[k + 1].rz_angles)
                    ELSE <<>>)
    IN  IF state_len # dim \/ norm_is_zero
        THEN [err |-> "ValueError", out |-> <<>>]
        ELSE [err |-> "ok", out |-> Flatten([k \in 1..n |-> level(k - 1)])]

\* the angles phase 1 can hand over for n targets: theta = 2 arctan2(r1, r0)
\* is never negative, phi = angle(a1) - angle(a0) has either sign
RyAngles == {0, AngleUnit}

RzAngles == {0 - AngleUnit, 0, AngleUnit}

\* lists of 2^k angles over a set of values: every list of one or two angles;
\* of the longer ones those with one value on each half and those with
\* alternating values
AngleLists(k, values) ==
    IF k <= 1 THEN [1..(2 ^ k) -> values]
    ELSE {[j \in 1..(2 ^ k) |-> IF j <= 2 ^ (k - 1) THEN a ELSE b] : a \in values, b \in values}
         \cup {[j \in 1..(2 ^ k) |-> IF j % 2 = 1 THEN a ELSE b] : a \in values, b \in values}

\* the angle lists of level k: 2^k ry angles and 2^k rz angles
LevelAngles(k) ==
    [ry_angles : AngleLists(k, RyAngles), rz_angles : AngleLists(k, RzAngles)]

RECURSIVE LevelsOf(_)
LevelsOf(n) ==
    IF n = 0 THEN {<<>>}
    ELSE {Append(lv, a) : lv \in LevelsOf(n - 1), a \in LevelAngles(n - 1)}

\* n distinct target qubits, not in increasing order
TargetsOf(n) == [i \in 1..n |-> n - i]

\* instructions handed to expand
ExpandInstrs ==
    {sq_par_gates("u2", 0, <<2, 4>>, NoneInt),
     sq_par_gates("u2", 1, <<2>>, NoneInt),
     sq_par_gates("u3", 1, <<2, 4, 6>>, NoneInt),
     tqc_par_gates("cu", 0, 1, <<2, 4, 6>>, NoneInt),
     tqc_par_gates("cu", 1, 0, <<6, 4, 2>>, 100),
     isa_measure(<<0, 1>>),
     isa_measure(<<1, 0>>),
     isa_measure(<<2, 0, 1>>),
     isa_measure(<<0>>),
     isa_reset(<<0, 1>>),
     isa_nop(<<0, 1>>),
     isa_swap(0, 1),
     sq_nopar_gates("x", 0, 100),
     sq_nopar_gates("x", 2, NoneInt),
     sq_nopar_gates("x", ChainLen - 1, NoneInt),
     sq_par_gates("rz", 1, <<4>>, NoneInt),
     tqc_nopar_gates("cx", 0, 1, NoneInt)}

\* the handle before QPU(...) has run
Unbuilt == [err |-> "unbuilt"]

\* ------------------------------------------------------------ the actions
LibInit ==
    /\ qpu = Unbuilt
    /\ call = NoCall
    /\ ctx = "CIRCUIT"
    /\ creg = CRegister(1)
    /\ shots = DefaultShots
    /\ pc = "created"
    /\ heap = <<>>
    /\ held = {}
    /\ instructions = <<>>
    /\ accum = {}
    /\ absorbs = 0
    /\ handled = <<>>
    /\ passlog = <<>>
    /\ exec_circuit_calls = <<>>
    /\ exec_single_calls = <<>>
    /\ body = "running"
    /\ raised = "none"
    /\ append_err = "none"
    /\ mutations = 0

scope_vars == <<ctx, pc, heap, held, instructions, creg, shots, accum, absorbs, handled,
                passlog, exec_circuit_calls, exec_single_calls, body, raised,
                append_err, mutations>>

\* the device has been set up and no library function called on it yet
Fresh == call.op \in {"construct", "add_node"}

\* QPU(filename): the topology and the mapping are built from the configuration
Construct(config) ==
    /\ qpu = Unbuilt
    /\ call = NoCall
    /\ qpu' = QPU_init(config, NoPass)
    /\ call' = [NoCall EXCEPT !.op = "construct", !.err = QPU_init(config, NoPass).err]
    /\ UNCHANGED scope_vars

\* topo.internal.add_node(q), as the topology tests do after construction
add_node(q) ==
    /\ qpu.err = "ok"
    /\ call.op = "construct"
    /\ q \notin Range(qpu.topology.internal.nodes)
    /\ qpu' = [qpu EXCEPT !.topology.internal.nodes = Append(@, q)]
    /\ call' = [NoCall EXCEPT !.op = "add_node", !.arg = q]
    /\ UNCHANGED scope_vars

\* qreg.challenge(instruction, context) on a newly built instruction
CallChallenge(v, context) ==
    LET n == New(EmptyMem, v)
        r == challenge_call(n.mem, n.ref, context)
    IN  /\ qpu.err = "ok"
        /\ Fresh
        /\ call' = [NoCall EXCEPT !.op = "challenge", !.arg = v, !.context = context,
                                  !.err = r.err, !.before = n.mem, !.after = r.mem,
                                  !.obj = n.ref, !.ret = r.ret]
        /\ UNCHANGED <<qpu, scope_vars>>

\* mapping.map(instruction)
CallMap(v) ==
    LET r == mapping_map(qpu.mapping, v)
    IN  /\ qpu.err = "ok"
        /\ Fresh
        /\ call' = [NoCall EXCEPT !.op = "map", !.arg = v, !.err = r.err,
                                  !.out = IF r.err = "ok" THEN <<r.out>> ELSE <<>>]
        /\ UNCHANGED <<qpu, scope_vars>>

\* topology.swaps(instruction, isa)
CallSwaps(v) ==
    LET r == topology_swaps(qpu.topology, v)
    IN  /\ qpu.err = "ok"
        /\ Fresh
        /\ call' = [NoCall EXCEPT !.op = "swaps", !.arg = v, !.err = r.err, !.out = r.out]
        /\ UNCHANGED <<qpu, scope_vars>>

\* qreg.expand(instruction)
CallExpand(v) ==
    LET r == expand(qpu.mapping, v)
    IN  /\ qpu.err = "ok"
        /\ Fresh
        /\ call' = [NoCall EXCEPT !.op = "expand", !.arg = v, !.err = r.err, !.out = r.out]
        /\ UNCHANGED <<qpu, scope_vars>>

\* prepare_state(isa, target, state=..., endianness=...) on a valid state
CallPrepare(n, endianness, levels) ==
    LET r == prepare_state(TargetsOf(n), 2 ^ n, FALSE, endianness, levels)
    IN  /\ qpu = Unbuilt
        /\ call = NoCall
        /\ call' = [NoCall EXCEPT !.op = "prepare_state",
                                  !.arg = [target |-> TargetsOf(n), state_len |-> 2 ^ n,
                                           norm_is_zero |-> FALSE,
                                           endianness |-> endianness, levels |-> levels],
                                  !.err = r.err, !.out = r.out]
        /\ UNCHANGED <<qpu, scope_vars>>

\* prepare_state on a state of the wrong length or of zero norm
CallPrepareRejected(n, state_len, norm_is_zero) ==
    LET zeros == [k \in 1..n |-> [ry_angles |-> [j \in 1..(2 ^ (k - 1)) |-> 0],
                                  rz_angles |-> [j \in 1..(2 ^ (k - 1)) |-> 0]]]
        r == prepare_state(TargetsOf(n), state_len, norm_is_zero, "little", zeros)
    IN  /\ qpu = Unbuilt
        /\ call = NoCall
        /\ state_len # 2 ^ n \/ norm_is_zero
        /\ call' = [NoCall EXCEPT !.op = "prepare_state",
                                  !.arg = [target |-> TargetsOf(n), state_len |-> state_len,
                                           norm_is_zero |-> norm_is_zero,
                                           endianness |-> "little", levels |-> zeros],
                                  !.err = r.err, !.out = r.out]
        /\ UNCHANGED <<qpu, scope_vars>>

\* QASMSynthesizer().synth_instruction(instr); the emitter needs no device
CallSynthInstruction(v) ==
    LET r == synth_instruction(v)
    IN  /\ qpu = Unbuilt
        /\ call = NoCall
        /\ call' = [NoCall EXCEPT !.op = "synth_instruction", !.arg = v, !.err = r.err,
                                  !.out = r.out]
        /\ UNCHANGED <<qpu, scope_vars>>

\* QASMSynthesizer().synth_circuit(circuit) on a closed circuit
CallSynthCircuit(qubit_count, bit_count, instrs) ==
    LET r == synth_circuit(qubit_count, bit_count, instrs)
    IN  /\ qpu = Unbuilt
        /\ call = NoCall
        /\ call' = [NoCall EXCEPT !.op = "synth_circuit",
                                  !.arg = [qubit_count |-> qubit_count,
                                           bit_count |-> bit_count,
                                           instructions |-> instrs],
                                  !.err = r.err, !.out = r.out]
        /\ UNCHANGED <<qpu, scope_vars>>

LibNext ==
    \/ \E config \in LibConfigs : Construct(config)
    \/ \E q \in Indices : add_node(q)
    \/ \E v \in ChallengeInstrs, context \in Contexts : CallChallenge(v, context)
    \/ \E v \in RouteInstrs : CallMap(v)
    \/ \E v \in RouteInstrs : CallSwaps(v)
    \/ \E v \in ExpandInstrs : CallExpand(v)
    \/ /\ call = NoCall
       /\ \E n \in 1..MaxTargets, endianness \in {"little", "big"} :
             \E levels \in LevelsOf(n) : CallPrepare(n, endianness, levels)
    \/ \E n \in 1..MaxTargets, norm_is_zero \in BOOLEAN :
          \E state_len \in {2 ^ n, 2 ^ n - 1} : CallPrepareRejected(n, state_len, norm_is_zero)
    \/ \E v \in SynthInstrs : CallSynthInstruction(v)
    \/ \E n \in {2, 3}, m \in BitCounts, instrs \in Programs : CallSynthCircuit(n, m, instrs)

LibSpec == LibInit /\ [][LibNext]_vars

\* ============================================================ properties
CircuitClosed == pc = "closed" /\ ctx = "CIRCUIT"

CleanClose == CircuitClosed /\ body = "clean"

\* the output and the failure of each pass taken alone, over the list the
\* circuit holds at close
OutputOf(p) ==
    IF p = "parsed" THEN View
    ELSE IF p = "mapped" THEN Outs(MapAll(qpu, View))
    ELSE IF p = "swapped" THEN Flatten(Outs(SwapsAll(qpu, View)))
    ELSE IF p = "expanded"
    THEN Flatten(Outs(ExpandAll(qpu, Flatten(Outs(SwapsAll(qpu, View))))))
    ELSE Flatten(Outs(TranspileAll(
            Flatten(Outs(ExpandAll(qpu, Flatten(Outs(SwapsAll(qpu, View)))))))))

ErrOf(p) ==
    IF p = "parsed" THEN "ok"
    ELSE IF p = "mapped" THEN FirstErr(MapAll(qpu, View))
    ELSE IF p = "swapped" THEN FirstErr(SwapsAll(qpu, View))
    ELSE IF p = "expanded" THEN FirstErr(ExpandAll(qpu, OutputOf("swapped")))
    ELSE FirstErr(TranspileAll(OutputOf("expanded")))

\* position of a pass in the order; executed computes up to transpiled
PassIndex(p) == CHOOSE k \in 1..6 : PassOrder[k] = p

LastComputed(p) == IF p = "executed" THEN 5 ELSE PassIndex(p)

PassesOk(p) == \A k \in 1..LastComputed(p) : ErrOf(PassOrder[k]) = "ok"

\* the operands of an instruction
Operands(instr) == Range(OrEmpty(instr.target_qubits)) \cup Range(OrEmpty(instr.control_qubits))

\* C1: when the body of a Circuit scope raises a user exception, that same
\* exception reaches the caller, whatever last_pass and the appended list are.
C1_ExceptionPropagates ==
    (CircuitClosed /\ body = "exception") => raised = "UserError"

\* C2: a Circuit or Test scope left by a user exception does no pipeline work:
\* no pass runs, the classical register keeps the data it had at entry, the
\* accumulator gets no key, and exec_circuit and exec_single are not called.
C2_NoPipelineOnException ==
    (pc = "closed" /\ body = "exception") =>
        /\ passlog = <<>>
        /\ creg = CRegister(creg.bit_count)
        /\ accum = {}
        /\ exec_circuit_calls = <<>>
        /\ exec_single_calls = <<>>

\* C3: on a clean close with a recognized last_pass p the passes run in order
\* up to and including p and none after it, and the handler gets the output
\* of p (the transpiled list for executed); the close fails only when a pass
\* up to p fails, never because a later pass would.
C3_StopsAtLastPass ==
    (CleanClose /\ qpu.last_pass \in RecognizedPasses) =>
        IF PassesOk(qpu.last_pass)
        THEN /\ passlog = SubSeq(PassOrder, 1, LastComputed(qpu.last_pass))
             /\ handled = <<[cpass |-> qpu.last_pass,
                             program |-> OutputOf(PassOrder[LastComputed(qpu.last_pass)])]>>
             /\ raised \in {"none", "BackendError"}
             /\ raised = "BackendError" => qpu.last_pass = "executed"
        ELSE /\ handled = <<>>
             /\ raised # "none"
             /\ \E k \in 2..LastComputed(qpu.last_pass) :
                   /\ passlog = SubSeq(PassOrder, 1, k)
                   /\ raised = ErrOf(PassOrder[k])
                   /\ \A j \in 1..(k - 1) : ErrOf(PassOrder[j]) = "ok"

\* C3 witness: a clean close at expanded succeeded on a list the transpiler
\* would have failed on.
C3_Witness ==
    /\ CleanClose
    /\ qpu.last_pass = "expanded"
    /\ raised = "none"
    /\ Len(handled) = 1
    /\ ErrOf("transpiled") # "ok"

\* C4: absorb is called exactly once per clean close of a Circuit with a
\* recognized last_pass, and at no other moment of the circuit's lifetime.
C4_AbsorbOncePerCleanClose ==
    /\ (CleanClose /\ qpu.last_pass \in RecognizedPasses /\ raised = "none")
          => absorbs = 1
    /\ ~(CleanClose /\ qpu.last_pass \in RecognizedPasses) => absorbs = 0

\* C5: every instruction in a Circuit's list is the validated copy challenge
\* returned: kind CIRCUIT, shots unset, and not the object the caller passed.
C5_StoresValidatedCopy ==
    ctx = "CIRCUIT" =>
        \A i \in DOMAIN instructions :
            /\ View[i].instruction_type = "CIRCUIT"
            /\ View[i].shots = NoneInt
            /\ instructions[i] \notin held

\* a list of recognized circuit instructions over the register's own qubits,
\* each of an arity routing accepts
ValidProgram ==
    \A i \in DOMAIN View :
        /\ View[i].symbol \in circuit_instr
        /\ Operands(View[i]) \subseteq DOMAIN qpu.mapping
        /\ \/ View[i].symbol \in {"measure", "reset"}
           \/ Len(OrEmpty(View[i].target_qubits)) + Len(OrEmpty(View[i].control_qubits)) <= 2

\* C6: with an unrecognized last_pass a clean close of a Circuit raises
\* UnknownCompilerPass, whatever list the circuit accepted.
C6_UnknownPassRaises ==
    (CleanClose /\ ValidProgram /\ qpu.last_pass \notin RecognizedPasses) =>
        raised = "UnknownCompilerPass"

\* C7: after a clean close with last_pass in parsed..transpiled the register
\* holds exactly the sentinel map over all binary strings of its width,
\* whatever was appended.
C7_SentinelAfterClose ==
    (CleanClose /\ ValidProgram /\ qpu.last_pass \in RecognizedPasses \ {"executed"}) =>
        /\ ~creg.data_is_none
        /\ creg.data = Sentinel(creg.bit_count)

\* C8: exec_circuit is invoked only by a clean close with last_pass =
\* executed, once, with the transpiled list and the circuit's shots.
C8_ExecCircuitOnlyOnExecuted ==
    /\ (CleanClose /\ qpu.last_pass = "executed" /\ raised \in {"none", "BackendError"})
          => exec_circuit_calls =
                <<[circuit |-> OutputOf("transpiled"), shots |-> shots]>>
    /\ ~(CleanClose /\ qpu.last_pass = "executed") => exec_circuit_calls = <<>>

\* C9: transpile_gate returns a list, non-empty unless the symbol is nop, for
\* every well-formed instruction with a recognized circuit symbol.
C9_TranspilerTotal ==
    \A i \in DOMAIN instructions :
        (View[i].symbol \in circuit_instr /\ is_well_formed_instruction(View[i]) = "ok")
            => /\ transpile_gate(View[i]).err = "ok"
               /\ View[i].symbol # "nop" => transpile_gate(View[i]).out # <<>>

GateSymbols == circuit_instr \ {"nop", "measure", "reset"}

\* gates over the register's qubits followed by one measure
GatesThenMeasure ==
    /\ Len(View) >= 2
    /\ View[Len(View)].symbol = "measure"
    /\ \A i \in 1..(Len(View) - 1) : View[i].symbol \in GateSymbols
    /\ ValidProgram

\* C10: with last_pass = transpiled a clean close of gates followed by a
\* measure completes, and the transpiled list holds only rx, ry, sqiswap and
\* measure, with exactly one measure per measured qubit.
C10_TranspiledNativeOnly ==
    (CleanClose /\ qpu.last_pass = "transpiled" /\ GatesThenMeasure) =>
        /\ raised = "none"
        /\ Len(handled) = 1
        /\ \A k \in DOMAIN handled[1].program :
              handled[1].program[k].symbol \in {"rx", "ry", "sqiswap", "measure"}
        /\ \A q \in Range(View[Len(View)].target_qubits) :
              Cardinality({k \in DOMAIN handled[1].program :
                              /\ handled[1].program[k].symbol = "measure"
                              /\ q \in Range(handled[1].program[k].target_qubits)}) = 1

\* C11: transpile_gate rejects an instruction whose symbol is not a key of
\* the table with UnknownInstruction and emits no gate: a clean close that
\* reaches the transpiler with such an instruction raises UnknownInstruction
\* and hands nothing to the handler.
C11_UnknownSymbolRejected ==
    (/\ CleanClose
     /\ qpu.last_pass \in {"transpiled", "executed"}
     /\ PassesOk("expanded")
     /\ \E k \in DOMAIN OutputOf("expanded") :
           OutputOf("expanded")[k].symbol \notin DOMAIN _table)
        => /\ raised = "UnknownInstruction"
           /\ handled = <<>>

\* C12: challenge never changes its argument, whether it returns or raises:
\* the object and the lists it refers to are the same afterwards; when it
\* returns, the result is another object and shares no list with the argument.
C12_ChallengeNeverMutates ==
    call.op = "challenge" =>
        /\ call.after.objs[call.obj] = call.before.objs[call.obj]
        /\ \A r \in ListRefs(call.before, call.obj) :
              call.after.lists[r] = call.before.lists[r]
        /\ Deref(call.after, call.obj) = call.arg
        /\ call.err # "ok" => call.ret = 0
        /\ call.err = "ok" =>
              /\ call.ret \in DOMAIN call.after.objs
              /\ call.ret # call.obj
              /\ ListRefs(call.after, call.ret) \cap ListRefs(call.after, call.obj) = {}

\* C12 witness: challenge under CIRCUIT returned a copy with the shots
\* cleared of an instruction that carries lists and keeps its 100 shots.
C12_Witness ==
    /\ call.op = "challenge"
    /\ call.context = "CIRCUIT"
    /\ call.err = "ok"
    /\ call.arg.shots = 100
    /\ ListRefs(call.before, call.obj) # {}
    /\ Deref(call.after, call.ret).shots = NoneInt
    /\ Deref(call.after, call.obj).shots = 100

\* C13: for a statically well-formed instruction challenge decides by the
\* context and the kind alone.  CIRCUIT: NotAllowedInContext iff the kind is
\* QPUSTATE or TEST, else a copy of kind CIRCUIT with shots cleared.  TEST:
\* NotAllowedInContext iff the kind is QPUSTATE, else MalformedInstruction
\* iff shots is unset, else a copy of kind TEST with its shots.  No context:
\* a copy of kind QPUSTATE.
C13_ChallengeDecisionTable ==
    (call.op = "challenge" /\ is_well_formed_instruction(call.arg) = "ok") =>
        LET i == call.arg
            returns(v) == call.err = "ok" /\ Deref(call.after, call.ret) = v
        IN  /\ call.context = "CIRCUIT" =>
                IF i.instruction_type \in {"QPUSTATE", "TEST"}
                THEN call.err = "NotAllowedInContext"
                ELSE returns([i EXCEPT !.instruction_type = "CIRCUIT", !.shots = NoneInt])
            /\ call.context = "TEST" =>
                IF i.instruction_type = "QPUSTATE"
                THEN call.err = "NotAllowedInContext"
                ELSE IF i.shots = NoneInt
                THEN call.err = "MalformedInstruction"
                ELSE returns([i EXCEPT !.instruction_type = "TEST"])
            /\ call.context = "NONE" =>
                returns([i EXCEPT !.instruction_type = "QPUSTATE"])

\* C13 witness: under TEST a well-formed QPUSTATE instruction without shots
\* was rejected for its kind, not for its missing shots.
C13_Witness ==
    /\ call.op = "challenge"
    /\ call.context = "TEST"
    /\ is_well_formed_instruction(call.arg) = "ok"
    /\ call.arg.instruction_type = "QPUSTATE"
    /\ call.arg.shots = NoneInt
    /\ call.err = "NotAllowedInContext"

\* C14: static well-formedness, and so challenge in every context, raises
\* MalformedInstruction for every instruction with a negative target or
\* control index, or whose control and target lists are both present and
\* share an index, whatever its is_controlled flag.
C14_NegativeOrOverlapRejected ==
    call.op = "challenge" =>
        LET i == call.arg
            negative == \E q \in Operands(i) : q < 0
            overlap == /\ ~IsNoneList(i.target_qubits)
                       /\ ~IsNoneList(i.control_qubits)
                       /\ Range(i.target_qubits) \cap Range(i.control_qubits) # {}
        IN  (negative \/ overlap) =>
                /\ is_well_formed_instruction(i) = "MalformedInstruction"
                /\ call.err = "MalformedInstruction"

\* the operands of a call's instruction in the order swaps reads them
AllQubits(instr) == OrEmpty(instr.control_qubits) \o OrEmpty(instr.target_qubits)

\* breadth-first distance in edges from the set `frontier` (at distance d) to
\* t; -1 when t cannot be reached or is not a node
RECURSIVE Hops(_, _, _, _, _)
Hops(g, frontier, seen, t, d) ==
    IF t \in frontier
    THEN d
    ELSE LET next == {n \in Range(g.nodes) \ seen : \E m \in frontier : has_edge(g, m, n)}
         IN  IF next = {} THEN 0 - 1 ELSE Hops(g, next, seen \cup next, t, d + 1)

Dist(g, a, b) ==
    IF a \notin Range(g.nodes) \/ b \notin Range(g.nodes)
    THEN 0 - 1
    ELSE Hops(g, {a}, {a}, b, 0)

\* the node at position i of the shortest path from a to b
PathNode(g, a, b, i) ==
    CHOOSE n \in Range(g.nodes) : Dist(g, a, n) = i /\ Dist(g, n, b) = Dist(g, a, b) - i

\* C15: for one control c and one target t not joined by an edge, with
\* shortest path p0 = c, ..., pk = t (k >= 2), swaps returns 2(k-1)+1
\* instructions: swap(p0,p1) .. swap(p(k-2),p(k-1)), then the instruction
\* with its symbol and parameters on control p(k-1) and target pk, then the
\* same swaps in reverse order.
C15_RoutedSequence ==
    LET i == call.arg
        g == qpu.topology.internal
        c == i.control_qubits[1]
        t == i.target_qubits[1]
        k == Dist(g, c, t)
        P(n) == PathNode(g, c, t, n)
        is_swap(x, a, b) == /\ x.symbol = "swap"
                            /\ x.control_qubits = <<a>>
                            /\ x.target_qubits = <<b>>
    IN  (/\ call.op = "swaps"
         /\ i.symbol \notin {"measure", "reset"}
         /\ Len(OrEmpty(i.control_qubits)) = 1
         /\ Len(OrEmpty(i.target_qubits)) = 1
         /\ ~has_edge(g, c, t)
         /\ k >= 2
         /\ \A n \in 0..(k - 1) : has_edge(g, P(n), P(n + 1)))
        => /\ call.err = "ok"
           /\ Len(call.out) = 2 * (k - 1) + 1
           /\ \A n \in 1..(k - 1) : is_swap(call.out[n], P(n - 1), P(n))
           /\ call.out[k].symbol = i.symbol
           /\ call.out[k].parameters = i.parameters
           /\ call.out[k].control_qubits = <<P(k - 1)>>
           /\ call.out[k].target_qubits = <<P(k)>>
           /\ \A n \in 1..(k - 1) : is_swap(call.out[k + n], P(k - 1 - n), P(k - n))

\* C15 witness: swaps routed a cx over a path of three edges into five
\* instructions.
C15_Witness ==
    /\ call.op = "swaps"
    /\ call.arg.symbol = "cx"
    /\ call.err = "ok"
    /\ Len(call.out) = 5
    /\ Dist(qpu.topology.internal, call.arg.control_qubits[1], call.arg.target_qubits[1]) = 3

\* C16: swaps raises QubitsNotConnected, and nothing else, for every
\* two-operand instruction whose operands have no path between them,
\* whether or not both are nodes of the graph.
C16_NoPathRaisesNotConnected ==
    (/\ call.op = "swaps"
     /\ call.arg.symbol \notin {"measure", "reset"}
     /\ Len(AllQubits(call.arg)) = 2
     /\ AllQubits(call.arg)[1] # AllQubits(call.arg)[2]
     /\ Dist(qpu.topology.internal, AllQubits(call.arg)[1], AllQubits(call.arg)[2]) < 0)
        => call.err = "QubitsNotConnected"

\* the device as QPU(...) left it, its topology built
TopologyBuilt == call.op = "construct" /\ qpu.err \in {"ok", "NotEnoughQubits"}

\* C17: a linear topology constructed with a non-empty exclusion list has no
\* node that is excluded or >= min(exclusions) and no edge with such an
\* endpoint, and qubits() yields only configured qubits below min(exclusions).
C17_ExclusionsRemoved ==
    (TopologyBuilt /\ qpu.config.exclusions # <<>>) =>
        LET g == qpu.topology.internal
            gone(n) == n \in Range(qpu.config.exclusions) \/ n >= SeqMin(qpu.config.exclusions)
        IN  /\ \A n \in Range(g.nodes) : ~gone(n)
            /\ \A e \in g.edges : \A n \in e : ~gone(n)
            /\ \A n \in Range(qubits(qpu.topology)) :
                  n \in Range(qpu.config.qubits) /\ n < SeqMin(qpu.config.exclusions)

\* C18: QPUMapping raises NotEnoughQubits iff there are more virtual qubits
\* than topology nodes; otherwise the mapping is defined on 0..n-1, is
\* one-to-one, maps into the nodes, and sends the i-th virtual index to the
\* i-th qubit the topology yields.  No later map or swaps call changes it.
C18_MappingConstruction ==
    /\ [](TopologyBuilt =>
            LET n == qpu.config.qubit_count
                nodes == qubits(qpu.topology)
            IN  /\ (qpu.err = "NotEnoughQubits") <=> (n > Len(nodes))
                /\ qpu.err = "ok" =>
                      /\ DOMAIN qpu.mapping = 0..(n - 1)
                      /\ \A a, b \in 0..(n - 1) :
                            qpu.mapping[a] = qpu.mapping[b] => a = b
                      /\ \A a \in 0..(n - 1) : qpu.mapping[a] \in Range(nodes)
                      /\ \A a \in 0..(n - 1) : qpu.mapping[a] = nodes[a + 1])
    /\ [][call'.op \in {"map", "swaps"} => qpu' = qpu]_vars

\* C18 witness: map was called on a device whose mapping is not the identity.
C18_Witness ==
    /\ call.op = "map"
    /\ call.err = "ok"
    /\ qpu.err = "ok"
    /\ qpu.mapping[0] # 0
    /\ call.out[1].target_qubits # call.arg.target_qubits

\* in-order concatenation of a list of lists, built from the last one back
RECURSIVE Join(_)
Join(ss) ==
    IF ss = <<>> THEN <<>> ELSE Join(SubSeq(ss, 1, Len(ss) - 1)) \o ss[Len(ss)]

\* what one appended instruction alone becomes under pass p
Derived(p, instr) ==
    LET sw == topology_swaps(qpu.topology, instr).out
        ex == Join([k \in DOMAIN sw |-> expand(qpu.mapping, sw[k]).out])
    IN  IF p = "parsed" THEN <<instr>>
        ELSE IF p = "mapped" THEN <<mapping_map(qpu.mapping, instr).out>>
        ELSE IF p = "swapped" THEN sw
        ELSE IF p = "expanded" THEN ex
        ELSE Join([k \in DOMAIN ex |-> transpile_gate(ex[k]).out])

\* C19: every pass keeps the order of the appended instructions: the output
\* handed over at a clean close is the in-order concatenation of what each
\* appended instruction alone becomes, nothing dropped or duplicated.
C19_OrderPreserved ==
    (/\ CleanClose
     /\ qpu.last_pass \in RecognizedPasses
     /\ PassesOk(qpu.last_pass))
        => /\ Len(handled) = 1
           /\ handled[1].program =
                 Join([i \in DOMAIN View |->
                         Derived(PassOrder[LastComputed(qpu.last_pass)], View[i])])

\* C19 witness: a clean close at expanded of two different instructions, the
\* first of which grew into several.
C19_Witness ==
    /\ CleanClose
    /\ qpu.last_pass = "expanded"
    /\ raised = "none"
    /\ Len(View) = 2
    /\ View[1].symbol # View[2].symbol
    /\ Len(Derived("expanded", View[1])) > 1
    /\ Len(handled) = 1
    /\ Len(handled[1].program) > 2

\* C20: on a clean exit of a Test scope that accepted n instructions
\* exec_single has been called n times, in append order, each time with that
\* instruction and its own shots, and the accumulator holds exactly the keys
\* 0..n-1 with the results; no exec_single call happens before the exit.
C20_TestExitDispatch ==
    /\ (ctx = "TEST" /\ pc = "closed" /\ body = "clean") =>
          /\ raised = "none"
          /\ Len(exec_single_calls) = Len(instructions)
          /\ \A i \in DOMAIN instructions :
                /\ exec_single_calls[i].instruction = View[i]
                /\ exec_single_calls[i].shots = View[i].shots
          /\ accum = {<<i - 1, NoneInt>> : i \in DOMAIN instructions}
    /\ pc # "closed" => exec_single_calls = <<>> /\ accum = {}

\* C20 witness: a Test scope of two instructions with different shots closed
\* cleanly.
C20_Witness ==
    /\ ctx = "TEST"
    /\ pc = "closed"
    /\ body = "clean"
    /\ Len(instructions) = 2
    /\ Len(exec_single_calls) = 2
    /\ exec_single_calls[1].shots # exec_single_calls[2].shots

\* the lines of the emitted text that are measure statements
MeasureLines(text) == {i \in DOMAIN text : text[i].mnemonic = "measure"}

\* C21: synth_instruction raises UnknownInstruction exactly when the symbol is
\* outside the circuit symbol set, and for every circuit symbol (measure with
\* targets) it returns text whose every statement opens with the symbol.
C21_QasmUnknownExactly ==
    call.op = "synth_instruction" =>
        /\ (call.err = "UnknownInstruction") <=> (call.arg.symbol \notin circuit_instr)
        /\ (call.arg.symbol \in circuit_instr
              /\ (call.arg.symbol = "measure" => Truthy(call.arg.target_qubits))) =>
                /\ call.err = "ok"
                /\ \A i \in DOMAIN call.out : call.out[i].mnemonic = call.arg.symbol

\* C30: in the text synth_circuit returns for a circuit with an m-bit classical
\* register, the measure statements write pairwise distinct classical bits
\* c[i], each with i < m.
C30_MeasureBitsDistinctInRange ==
    (call.op = "synth_circuit" /\ call.err = "ok") =>
        /\ \A i \in MeasureLines(call.out) :
              call.out[i].cbit >= 0 /\ call.out[i].cbit < call.arg.bit_count
        /\ \A i, j \in MeasureLines(call.out) :
              i # j => call.out[i].cbit # call.out[j].cbit

\* no instruction other than measure comes after a measure
MeasureTerminal(l) ==
    \A i, j \in DOMAIN l : (i < j /\ l[i].symbol = "measure") => l[j].symbol = "measure"

\* C22: measurement is terminal within a circuit: in the list a Circuit has
\* accepted, and in the pass output handed over at close, no instruction other
\* than measure comes after a measure.
C22_MeasurementTerminal ==
    ctx = "CIRCUIT" =>
        /\ MeasureTerminal(View)
        /\ \A k \in DOMAIN handled : MeasureTerminal(handled[k].program)

\* the passes after mapped
BeyondMapped == {"swapped", "expanded", "transpiled", "executed"}

\* the physical nodes of the device
PhysicalNodes == Range(qubits(qpu.topology))

\* routing applied to the mapped form of every instruction of the list
RoutedMapped(instrs) ==
    Flatten([i \in DOMAIN instrs |->
                topology_swaps(qpu.topology, mapping_map(qpu.mapping, instrs[i]).out).out])

\* the targets and the controls of each instruction of a list (None as no
\* operand)
OperandLists(l) ==
    [i \in DOMAIN l |-> <<OrEmpty(l[i].target_qubits), OrEmpty(l[i].control_qubits)>>]

\* C24: at a clean close with a last_pass beyond mapped, routing is handed the
\* mapped form of each appended instruction (so the swapped output is the
\* routing of the mapped list), and every qubit operand of the output handed
\* over is a physical node of the topology.
C24_LaterPassesSeeMappedForm ==
    (CleanClose /\ Len(handled) = 1 /\ handled[1].cpass \in BeyondMapped) =>
        /\ handled[1].cpass = "swapped" =>
              OperandLists(handled[1].program) = OperandLists(RoutedMapped(View))
        /\ \A i \in DOMAIN handled[1].program :
              Operands(handled[1].program[i]) \subseteq PhysicalNodes

\* C29: every instruction a Circuit has accepted names only virtual qubits
\* (each target and control index is below the QPU's virtual qubit count), and
\* a clean close never fails with a missing key in the mapping.
C29_AcceptedNamesVirtualQubits ==
    ctx = "CIRCUIT" =>
        /\ \A i \in DOMAIN View : \A q \in Operands(View[i]) :
              q >= 0 /\ q < qpu.config.qubit_count
        /\ CleanClose => raised # "KeyError"

\* the contents of the qubits after the inserted SWAPs among the first n
\* instructions of a routed list, each qubit starting with its own name as
\* content; the instruction at position skip is the routed one and moves
\* nothing
RECURSIVE ContentsAfter(_, _, _, _)
ContentsAfter(nodes, l, n, skip) ==
    IF n = 0 THEN [q \in nodes |-> q]
    ELSE LET c == ContentsAfter(nodes, l, n - 1, skip)
             a == l[n].control_qubits[1]
             b == l[n].target_qubits[1]
         IN  IF n = skip \/ l[n].symbol # "swap" THEN c
             ELSE [c EXCEPT ![a] = c[b], ![b] = c[a]]

\* a swaps call that returned, on an instruction of one control and one target
RoutedOneControlOneTarget ==
    /\ call.op = "swaps"
    /\ call.err = "ok"
    /\ call.arg.symbol \notin {"measure", "reset"}
    /\ Len(OrEmpty(call.arg.control_qubits)) = 1
    /\ Len(OrEmpty(call.arg.target_qubits)) = 1

\* C25: reading each inserted SWAP as exchanging the contents of its two
\* qubits, in the list swaps returns for a one-control one-target instruction
\* the content that started on the original control sits on the routed control
\* and the content that started on the original target sits on the routed
\* target when the routed instruction acts, and after the last instruction
\* every qubit holds the content it started with.
C25_RoutingContentCorrect ==
    RoutedOneControlOneTarget =>
        LET nodes == Range(qpu.topology.internal.nodes)
            mid == (Len(call.out) + 1) \div 2
            routed == call.out[mid]
            at_gate == ContentsAfter(nodes, call.out, mid - 1, mid)
            at_end == ContentsAfter(nodes, call.out, Len(call.out), mid)
        IN  /\ Len(call.out) % 2 = 1
            /\ routed.symbol = call.arg.symbol
            /\ at_gate[routed.control_qubits[1]] = call.arg.control_qubits[1]
            /\ at_gate[routed.target_qubits[1]] = call.arg.target_qubits[1]
            /\ at_end = [q \in nodes |-> q]

\* C25 witness: swaps routed a cx over two inserted SWAPs on each side; the
\* routed control is not the original one and holds its content.
C25_Witness ==
    /\ RoutedOneControlOneTarget
    /\ Len(call.out) = 5
    /\ call.out[3].control_qubits # call.arg.control_qubits
    /\ ContentsAfter(Range(qpu.topology.internal.nodes), call.out, 2, 3)
            [call.out[3].control_qubits[1]] = call.arg.control_qubits[1]

\* the operand slots of an instruction, controls first
OperandSeq(instr) == OrEmpty(instr.control_qubits) \o OrEmpty(instr.target_qubits)

\* a swaps call that returned, on an instruction of two operands that are
\* nodes of the graph
RoutedTwoOperands ==
    /\ call.op = "swaps"
    /\ call.err = "ok"
    /\ call.arg.symbol \notin {"measure", "reset"}
    /\ Len(OperandSeq(call.arg)) = 2
    /\ Range(OperandSeq(call.arg)) \subseteq Range(qpu.topology.internal.nodes)

\* C26: for a two-operand instruction whose operands are nodes of the graph,
\* every two-operand instruction in the list swaps returns acts on two qubits
\* joined by an edge of the graph.
C26_RoutedOnEdges ==
    RoutedTwoOperands =>
        \A i \in DOMAIN call.out :
            Len(OperandSeq(call.out[i])) = 2 =>
                has_edge(qpu.topology.internal,
                         OperandSeq(call.out[i])[1], OperandSeq(call.out[i])[2])

\* C28: for a well-formed instruction of two operands that are nodes of the
\* graph (one control and one target, or two targets and no control), every
\* instruction swaps returns has disjoint targets and controls, and the routed
\* instruction has as many targets and as many controls as the input.
C28_RoutingKeepsWellFormed ==
    (RoutedTwoOperands /\ is_well_formed_instruction(call.arg) = "ok") =>
        LET mid == (Len(call.out) + 1) \div 2
        IN  /\ \A i \in DOMAIN call.out :
                  Range(OrEmpty(call.out[i].target_qubits))
                      \cap Range(OrEmpty(call.out[i].control_qubits)) = {}
            /\ Len(OrEmpty(call.out[mid].target_qubits))
                  = Len(OrEmpty(call.arg.target_qubits))
            /\ Len(OrEmpty(call.out[mid].control_qubits))
                  = Len(OrEmpty(call.arg.control_qubits))

\* an expand call on an instruction over physical nodes (mapped and routed)
\* that carries the parameters and the control its rule reads
ExpandCall ==
    LET i == call.arg
    IN  /\ call.op = "expand"
        /\ Operands(i) \subseteq PhysicalNodes
        /\ Truthy(i.target_qubits)
        /\ i.symbol = "u2" => (Truthy(i.parameters) /\ Len(i.parameters) = 2)
        /\ i.symbol \in {"u3", "cu"} => (Truthy(i.parameters) /\ Len(i.parameters) = 3)
        /\ i.symbol = "cu" => Len(OrEmpty(i.control_qubits)) = 1

\* C27: expand follows its rule table: u2(phi, lambda) on q gives rz(q, phi),
\* ry(q, pi/2), rz(q, lambda); u3(phi, theta, lambda) gives rz(q, phi),
\* ry(q, theta), rz(q, lambda); cu(phi, theta, lambda) with control c gives
\* rz(q, lambda), ry(q, theta/2), cx(c, q), ry(q, -theta/2),
\* rz(q, -(phi + lambda)), cx(c, q), rz(q, phi); a measure of several targets
\* gives one single-target measure per target in the original order; every
\* other instruction gives the list of that instruction alone.  The output
\* holds no u2, u3, cu and no measure of several targets.
C27_ExpandRuleTable ==
    ExpandCall =>
        LET i == call.arg
            q == i.target_qubits[1]
            p == i.parameters
            c == i.control_qubits[1]
            RZ(a) == sq_par_gates("rz", q, <<a>>, NoneInt)
            RY(a) == sq_par_gates("ry", q, <<a>>, NoneInt)
            CX == tqc_nopar_gates("cx", c, q, NoneInt)
        IN  /\ call.err = "ok"
            /\ i.symbol = "u2" => call.out = <<RZ(p[1]), RY(PI \div 2), RZ(p[2])>>
            /\ i.symbol = "u3" => call.out = <<RZ(p[1]), RY(p[2]), RZ(p[3])>>
            /\ i.symbol = "cu" =>
                  call.out = <<RZ(p[3]), RY(p[2] \div 2), CX, RY(0 - (p[2] \div 2)),
                               RZ(0 - (p[1] + p[3])), CX, RZ(p[1])>>
            /\ (i.symbol = "measure" /\ Len(i.target_qubits) > 1) =>
                  /\ Len(call.out) = Len(i.target_qubits)
                  /\ \A n \in DOMAIN call.out :
                        call.out[n] = isa_measure(<<i.target_qubits[n]>>)
            /\ (i.symbol \notin {"u2", "u3", "cu"}
                  /\ ~(i.symbol = "measure" /\ Len(i.target_qubits) > 1)) =>
                  call.out = <<i>>
            /\ \A n \in DOMAIN call.out :
                  /\ call.out[n].symbol \notin {"u2", "u3", "cu"}
                  /\ call.out[n].symbol = "measure" => Len(call.out[n].target_qubits) = 1

\* the position of qubit q in the list l of distinct qubits (0 if absent)
PositionIn(l, q) == IF q \in Range(l) THEN CHOOSE i \in DOMAIN l : l[i] = q ELSE 0

\* C23: for a state of length 2^n and non-zero norm over n distinct targets
\* (taken in the order the endianness gives), prepare_state returns only ry,
\* rz and cx instructions; a rotation acts on one of the targets and has no
\* control; a cx whose target is targets[k] has its control among
\* targets[0..k); the list has at most 6 * 2^n - 4n - 6 instructions.
C23_PrepareStateShape ==
    (/\ call.op = "prepare_state"
     /\ call.arg.state_len = 2 ^ Len(call.arg.target)
     /\ ~call.arg.norm_is_zero) =>
        LET n == Len(call.arg.target)
            tgt == IF call.arg.endianness = "big"
                   THEN Reversed(call.arg.target) ELSE call.arg.target
        IN  /\ call.err = "ok"
            /\ Len(call.out) <= 6 * (2 ^ n) - 4 * n - 6
            /\ \A i \in DOMAIN call.out :
                  LET x == call.out[i]
                      k == PositionIn(tgt, x.target_qubits[1])
                  IN  /\ x.symbol \in {"ry", "rz", "cx"}
                      /\ Len(x.target_qubits) = 1
                      /\ k >= 1
                      /\ x.symbol \in {"ry", "rz"} => ~Truthy(x.control_qubits)
                      /\ x.symbol = "cx" =>
                            /\ Len(x.control_qubits) = 1
                            /\ PositionIn(tgt, x.control_qubits[1]) >= 1
                            /\ PositionIn(tgt, x.control_qubits[1]) < k

\* C23 witness: a preparation over two targets that reaches the bound of ten
\* instructions, with ry, rz and cx among them.
C23_Witness ==
    /\ call.op = "prepare_state"
    /\ call.err = "ok"
    /\ Len(call.arg.target) = 2
    /\ Len(call.out) = 10
    /\ \E i, j, k \in DOMAIN call.out :
          /\ call.out[i].symbol = "ry"
          /\ call.out[j].symbol = "rz"
          /\ call.out[k].symbol = "cx"

====
